---- MODULE Spec2Model ----
(***************************************************************************)
(* MTMediaverse: order / job lifecycle (OrderBuilder, OrderVM, the bot    *)
(* REST endpoints) over the entity store, and the MessageOrchestrator's   *)
(* envelope processing.                                                    *)
(***************************************************************************)
EXTENDS Integers, Sequences, FiniteSets, Bags, TLC

\* ------------------------------------------------------------------------
\* Bounds of the model
\* ------------------------------------------------------------------------
NumMedia == 2
MaxOrders == 2
MaxItems == 2
MaxQuantity == 2
MaxListLen == 2
MaxEvents == 2
EnvMaxOrders == 1
ErrHistoryLimit == 1
MaxPatLen == 2
MaxTopicLen == 3
MaxKeys == 2
FanoutMaxSubs == 3
BusHistoryLimit == 1
MaxWorkers == 2
MaxAsync == 2
MaxJobs == 5
QueueMaxJobs == 2
MaxAttempts == 3
MaxCalls == 2
MaxPublishers == 2
MaxPublished == 3
MaxErrThreads == 2
MaxErrors == 3
MaxRegThreads == 2
MaxEnvelopes == 3
MaxQueueThreads == 2
MaxAssignThreads == 2

\* ------------------------------------------------------------------------
\* Seed data of the entity store (client_accounts, media_assets, products)
\* ------------------------------------------------------------------------
\* two registered bots, BOT-YT-001 on youtube and BOT-TT-001 on tiktok, and a
\* client_code that names no ClientAccount
Clients == {1, 2}
Media == 1..NumMedia
Platforms == {"youtube", "tiktok"}
NoClient == 0
ClientCodes == Clients \cup {3}

\* ClientAccount.platform of the registered clients
ClientPlatform(c) == IF c % 2 = 1 THEN "youtube" ELSE "tiktok"

\* session.query(ClientAccount).filter(client_code == code).first()
FindClient(code) == IF code \in Clients THEN code ELSE NoClient

\* Product.sku of the product a MediaAsset belongs to
Skus == {"P1", "P2"}
NoProd == "none"
ProdCodes == Skus \cup {NoProd, "PX"}
MediaProduct(m) == IF m % 2 = 1 THEN "P1" ELSE "P2"

ItemStatuses == {"new", "processing", "done", "failed", "skipped"}
Terminal == {"done", "failed", "skipped"}

VARIABLES
    orders,           \* table orders: order id -> row
    items,            \* table order_items: item id (job id) -> row
    posting_history,  \* table posting_history: the bag of its rows
    builder,          \* OrderBuilder.create_order between its read and its insert
    ret,              \* the last OrderVM / REST call and what it returned
    error_history,    \* ErrorOrchestrator._error_history (rolling)
    order_vm,         \* MessageOrchestrator._order_vm is set
    env,              \* process_envelope: the envelope, the loop position, the responses
    webhook,          \* POST /api/webhook: the request being served and its HTTP outcome
    bus,              \* the EventBus singleton and its async worker threads
    queue_orc,        \* the QueueOrchestrator singleton
    engine,           \* the ProcessEngine: its loop, its pool and the handler calls
    error_orc,        \* ErrorOrchestrator._error_count and the threads in handle_error
    registry,         \* MessageOrchestrator._clients, its lock and the threads using it
    assign            \* the threads inside OrderVM.get_next_job and what they assigned

storeVars == <<orders, items, posting_history>>
vmVars == <<orders, items, posting_history, ret, error_history>>
extVars == <<webhook, bus, queue_orc, engine, error_orc, registry, assign>>
vars == <<orders, items, posting_history, builder, ret, error_history, order_vm, env,
          webhook, bus, queue_orc, engine, error_orc, registry, assign>>

\* ------------------------------------------------------------------------
\* Helpers over the store
\* ------------------------------------------------------------------------
Range(s) == {s[i] : i \in DOMAIN s}

RECURSIVE SeqsNoRep(_, _)
\* all orderings of n distinct elements of S (ORDER BY random() LIMIT n)
SeqsNoRep(S, n) ==
    IF n = 0 THEN {<<>>}
    ELSE UNION {{Append(s, x) : x \in S \ Range(s)} : s \in SeqsNoRep(S, n - 1)}

Min(a, b) == IF a < b THEN a ELSE b

HistoryRow(c, m, p) == [client_id |-> c, media_id |-> m, platform |-> p]

\* a posting_history row for (client, media, platform) exists
Posted(hist, c, m, p) == BagIn(HistoryRow(c, m, p), hist)

\* a store without the unique index: no INSERT is ever rejected
UniqueViolationOff(hist, row) == FALSE

\* the UNIQUE constraint uq_posting_history, checked by the store on INSERT
UniqueViolation(hist, row) == BagIn(row, hist)

ItemsOfOrder(its, o) == {i \in DOMAIN its : its[i].order_id = o}

\* the (client, media, platform) key of an item, through its order
TripleOf(ords, its, i) ==
    HistoryRow(ords[its[i].order_id].client_id, its[i].media_id,
               ords[its[i].order_id].target_platform)

Idle == [pc |-> "idle", client_id |-> NoClient, platform |-> "", clips |-> <<>>]

\* an event of an envelope: its type and the payload fields the handlers read
NoEvent == [type |-> "", job_id |-> 0, status |-> "", level |-> ""]

\* process_envelope's frame: the sender, the reply tokens of envelope.events,
\* the loop position, the event being dispatched, the responses so far and
\* the counter of the sender's ClientStatus that the last handler incremented
NoEnvelope == [pc |-> "idle", client_code |-> 0, tokens |-> <<>>, pos |-> 1,
               cur |-> NoEvent, responses |-> <<>>, counted |-> "none"]

Ret(op, arg, res) == [op |-> op, arg |-> arg, res |-> res, published |-> <<>>]

\* ErrorOrchestrator.handle_error: append the record, keep the last N
HandleError(hist, category) ==
    LET h == Append(hist, category) IN
    IF Len(h) > ErrHistoryLimit
    THEN SubSeq(h, Len(h) - ErrHistoryLimit + 1, Len(h))
    ELSE h

\* ------------------------------------------------------------------------
\* EventBus (app/core/event_bus.py): topics, patterns, the subscriber table
\* ------------------------------------------------------------------------
\* a topic or a pattern is the list of its segments, 'a/b'.split('/')
Segs == {"a", "b"}
Wildcards == {"*", "#"}

SeqsUpTo(S, n) == UNION {[1..k -> S] : k \in 1..n}

\* what a caller passes as a pattern (literal segments and wildcards) and as
\* a topic (two of the topics hold a wildcard)
Patterns == SeqsUpTo({"a"} \cup Wildcards, MaxPatLen)
Topics == SeqsUpTo(Segs, MaxTopicLen) \cup {<<"*">>, <<"a", "#">>}

\* subscriber callbacks: h1 and h2 return, boom raises an exception
Callbacks == {"h1", "h2", "boom"}
CallbackRaises(cb) == cb = "boom"

RECURSIVE MatchParts(_, _)
\* EventBus._match_parts
MatchParts(pattern_parts, topic_parts) ==
    IF pattern_parts = <<>> THEN topic_parts = <<>>
    ELSE IF Head(pattern_parts) = "#" THEN TRUE
    ELSE IF topic_parts = <<>> THEN FALSE
    ELSE IF Head(pattern_parts) = "*"
         THEN MatchParts(Tail(pattern_parts), Tail(topic_parts))
    ELSE IF Head(pattern_parts) = Head(topic_parts)
         THEN MatchParts(Tail(pattern_parts), Tail(topic_parts))
    ELSE FALSE

\* a matcher for which '#' stands for one segment, like '*'
TopicMatchesOneLevel(pattern, topic) ==
    /\ Len(pattern) = Len(topic)
    /\ \A i \in DOMAIN pattern : pattern[i] \in Wildcards \/ pattern[i] = topic[i]

\* EventBus._topic_matches
TopicMatches(pattern, topic) == MatchParts(pattern, topic)

\* a topic check that looks for '#' alone
HasHash(topic) == "#" \in Range(topic)

\* the check of publish / publish_async: '#' in topic or '*' in topic
HasWildcard(topic) == Range(topic) \cap Wildcards # {}

\* Message(topic, payload): n is the payload, 0 for a synchronous publish and
\* the number of the publish_async call otherwise
Message(topic, n) == [topic |-> topic, n |-> n]

\* the position of pattern among the keys of _subscribers, 0 if it is no key
KeyOf(table, pattern) ==
    IF \E i \in DOMAIN table : table[i].pattern = pattern
    THEN CHOOSE i \in DOMAIN table : table[i].pattern = pattern
    ELSE 0

\* a subscribe without the membership test: the callback is always appended
SubscribeToAgain(table, pattern, callback) ==
    LET k == KeyOf(table, pattern) IN
    IF k = 0 THEN Append(table, [pattern |-> pattern, callbacks |-> <<callback>>])
    ELSE [table EXCEPT ![k].callbacks = Append(@, callback)]

\* subscribe: _subscribers[topic] (a defaultdict) gets the callback appended
\* unless it is in the list already
SubscribeTo(table, pattern, callback) ==
    LET k == KeyOf(table, pattern) IN
    IF k = 0 THEN Append(table, [pattern |-> pattern, callbacks |-> <<callback>>])
    ELSE IF callback \in Range(table[k].callbacks) THEN table
    ELSE [table EXCEPT ![k].callbacks = Append(@, callback)]

\* list.remove(x): the list without the first occurrence of x
RemoveFirst(s, x) ==
    LET i == CHOOSE i \in DOMAIN s : s[i] = x /\ \A k \in 1..(i - 1) : s[k] # x
    IN SubSeq(s, 1, i - 1) \o SubSeq(s, i + 1, Len(s))

\* an unsubscribe that drops every callback of the pattern
UnsubscribeAll(table, pattern, callback) ==
    LET k == KeyOf(table, pattern) IN
    IF k = 0 THEN table
    ELSE IF callback \notin Range(table[k].callbacks) THEN table
    ELSE [table EXCEPT ![k].callbacks = <<>>]

\* unsubscribe: the key stays in the dict, with a shorter list
UnsubscribeFrom(table, pattern, callback) ==
    LET k == KeyOf(table, pattern) IN
    IF k = 0 THEN table
    ELSE IF callback \notin Range(table[k].callbacks) THEN table
    ELSE [table EXCEPT ![k].callbacks = RemoveFirst(@, callback)]

RECURSIVE Subscriptions(_)
\* the (pattern, callback) pairs in the order _deliver_message walks them:
\* _subscribers.items() in insertion order, each list front to back
Subscriptions(table) ==
    IF table = <<>> THEN <<>>
    ELSE [i \in DOMAIN Head(table).callbacks |->
             [pattern |-> Head(table).pattern, callback |-> Head(table).callbacks[i]]]
         \o Subscriptions(Tail(table))

\* the subscriptions whose pattern matches the topic of the message
Matching(table, message) ==
    SelectSeq(Subscriptions(table), LAMBDA s : TopicMatches(s.pattern, message.topic))

\* a fan-out without the try/except: it ends at the first callback that raises
InvokedUntilRaise(matching) ==
    IF \E i \in DOMAIN matching : CallbackRaises(matching[i].callback)
    THEN SubSeq(matching, 1,
                CHOOSE i \in DOMAIN matching :
                    /\ CallbackRaises(matching[i].callback)
                    /\ \A k \in 1..(i - 1) : ~CallbackRaises(matching[k].callback))
    ELSE matching

\* the callbacks _deliver_message invokes: the exception of a callback is
\* caught and logged inside the loop, which goes on
Invoked(matching) == matching

\* _history after one more message: the last BusHistoryLimit messages
KeepLast(h, limit) == IF Len(h) > limit THEN SubSeq(h, Len(h) - limit + 1, Len(h)) ELSE h

\* EventBus._deliver_message on the bus b
DeliverMessage(b, message) ==
    [b EXCEPT !.history = KeepLast(Append(@, message), BusHistoryLimit),
              !.calls = Invoked(Matching(b.subscribers, message)),
              !.raised = "none"]

\* the last call on the bus: its name and, for a publish, its topic
Call(op, topic) == [op |-> op, topic |-> topic]

\* EventBus.__init__; last, calls and raised are the last call on the bus,
\* the callbacks it invoked and the exception it raised to its caller
\* the shutdown sentinel stop_async_worker puts into the queue (None), also
\* the message slot of a worker that holds no message
Sentinel == [topic |-> <<>>, n |-> 0]

\* threads running _async_worker, by the order of their creation
Workers == 1..MaxWorkers
NoThread == 0

\* a thread: not created yet, at the loop test, in _message_queue.get(), in
\* _deliver_message with a message, or ended
Thread(pc, message) == [pc |-> pc, msg |-> message]

\* the fan-out loop of a thread: its message, its position among the
\* subscriptions, the table it found when it took the lock and the
\* subscriptions whose callback it has called
Fanout(pc, message, pos, entered, invoked) ==
    [pc |-> pc, msg |-> message, pos |-> pos, entered |-> entered, invoked |-> invoked]

\* threads that call publish at the same time
Publishers == 1..MaxPublishers

\* a thread inside publish: where it is in _deliver_message, its message and
\* the slice of _history it has built and not stored yet
Publisher(pc, message, slice) == [pc |-> pc, msg |-> message, slice |-> slice]

\* EventBus.__init__; last, calls and raised are the last call on the bus,
\* the callbacks it invoked and the exception it raised to its caller.
\* accepted counts the publish_async calls, delivered lists the queued
\* messages handed to a subscriber, in the order of their fan-outs; joining
\* is the thread stop_async_worker is waiting for in join(timeout), stopped
\* the threads a stop_async_worker was issued for; tick flips at every
\* start_async_worker / stop_async_worker call; publishers are the threads
\* inside publish, appended and fanned_out list the messages of those threads
\* in the order of their _history.append and in the order of their fan-outs;
\* sub_lock is the thread that holds _sub_lock and fanouts are the fan-outs
\* of the publishing threads, callback by callback; restarted are the messages
\* publish_async accepted while the bus was marked running after a stop
InitBus ==
    [subscribers |-> <<>>, history |-> <<>>,
     last |-> Call("init", <<>>), calls |-> <<>>, raised |-> "none",
     message_queue |-> <<>>, running |-> FALSE, worker_thread |-> NoThread,
     workers |-> [w \in Workers |-> Thread("unborn", Sentinel)],
     accepted |-> 0, delivered |-> <<>>, joining |-> NoThread, stopped |-> {},
     tick |-> 0, restarted |-> {},
     publishers |-> [t \in Publishers |-> Publisher("idle", Sentinel, <<>>)],
     appended |-> <<>>, fanned_out |-> <<>>,
     sub_lock |-> NoThread,
     fanouts |-> [t \in Publishers |-> Fanout("idle", Sentinel, 1, <<>>, <<>>)]]

\* a call that invokes no callback and raises nothing
Quiet(b, op) == [b EXCEPT !.last = Call(op, <<>>), !.calls = <<>>, !.raised = "none"]

\* ------------------------------------------------------------------------
\* QueueOrchestrator (app/core/queue_orchestrator.py): the priority queue
\* ------------------------------------------------------------------------
\* JobPriority: HIGH, NORMAL, LOW
HIGH == 1
NORMAL == 5
LOW == 10
Priorities == {HIGH, NORMAL, LOW}

\* job types: 'ok' has a handler that returns, 'boom' a handler that always
\* raises, 'none' has no registered handler
JobTypes == {"ok", "boom", "none"}
Handlers == {"ok", "boom"}
HandlerRaises(job_type) == job_type = "boom"

\* Job(priority, job_type, max_attempts): status pending, attempt_count 0
Job(priority, job_type, max_attempts) ==
    [priority |-> priority, job_type |-> job_type, status |-> "pending",
     attempt_count |-> 0, max_attempts |-> max_attempts, error_message |-> ""]

\* an order in which no job is smaller than another
JobLessNever(jobs, a, b) == FALSE

\* Job.__lt__ of the dataclass(order=True): priority is the only compared field
JobLess(jobs, a, b) == jobs[a].priority < jobs[b].priority

RECURSIVE SiftDown(_, _, _, _, _)
\* heapq._siftdown: move newitem from pos towards startpos past larger parents
SiftDown(jobs, heap, startpos, pos, newitem) ==
    IF pos > startpos /\ JobLess(jobs, newitem, heap[pos \div 2])
    THEN SiftDown(jobs, [heap EXCEPT ![pos] = heap[pos \div 2]], startpos, pos \div 2, newitem)
    ELSE [heap EXCEPT ![pos] = newitem]

RECURSIVE SiftUp(_, _, _, _, _)
\* heapq._siftup: bubble the smaller child up until a leaf is hit, then sift
\* newitem down from there
SiftUp(jobs, heap, startpos, pos, newitem) ==
    LET childpos == 2 * pos
        rightpos == childpos + 1
        c == IF rightpos <= Len(heap) /\ ~JobLess(jobs, heap[childpos], heap[rightpos])
             THEN rightpos ELSE childpos
    IN IF childpos <= Len(heap)
       THEN SiftUp(jobs, [heap EXCEPT ![pos] = heap[c]], startpos, c, newitem)
       ELSE SiftDown(jobs, [heap EXCEPT ![pos] = newitem], startpos, pos, newitem)

\* heapq.heappush, which PriorityQueue.put calls
HeapPush(jobs, heap, item) ==
    SiftDown(jobs, Append(heap, item), 1, Len(heap) + 1, item)

\* heapq.heappop, which PriorityQueue.get calls: the item and the heap left
HeapPop(jobs, heap) ==
    LET lastelt == heap[Len(heap)]
        rest == SubSeq(heap, 1, Len(heap) - 1)
    IN IF rest = <<>>
       THEN [item |-> lastelt, heap |-> <<>>]
       ELSE [item |-> rest[1],
             heap |-> SiftUp(jobs, [rest EXCEPT ![1] = lastelt], 1, 1, lastelt)]

\* a call of the queue orchestrator: its name, the job it names or returns
\* (0: None) and the topics it published
QueueCall(op, job_id, published) == [op |-> op, job_id |-> job_id, published |-> published]

\* threads that call enqueue, complete and fail at the same time
QueueThreads == 1..MaxQueueThreads

\* a thread inside a call of the queue orchestrator: idle, or about to load
\* or to store the counter Head(todo) of _stats; loaded is the value it read
StatThread(pc, todo, loaded) == [pc |-> pc, todo |-> todo, loaded |-> loaded]

\* QueueOrchestrator.__init__; jobs is _jobs (job ids are the positions),
\* heap the list inside _queue, dequeued the jobs dequeue has returned so far,
\* calls the calls the threads of QueueThreads have made on tracked jobs
InitQueue ==
    [heap |-> <<>>, jobs |-> <<>>, dead_letter |-> <<>>,
     stats |-> [enqueued |-> 0, completed |-> 0, failed |-> 0, dead |-> 0],
     last |-> QueueCall("init", 0, <<>>), dequeued |-> <<>>,
     threads |-> [t \in QueueThreads |-> StatThread("idle", <<>>, 0)],
     calls |-> [enqueued |-> 0, completed |-> 0, failed |-> 0]]

\* enqueue
EnqueueJob(q, job_type, priority, max_attempts) ==
    LET jobs == Append(q.jobs, Job(priority, job_type, max_attempts))
        job_id == Len(jobs)
    IN [q EXCEPT !.jobs = jobs,
                 !.heap = HeapPush(jobs, q.heap, job_id),
                 !.stats.enqueued = @ + 1,
                 !.last = QueueCall("enqueue", job_id, <<"queue/job/enqueued">>)]

\* a dequeue that does not count the attempt
DequeueJobNoCount(q) ==
    IF q.heap = <<>> THEN [q EXCEPT !.last = QueueCall("dequeue", 0, <<>>)]
    ELSE LET popped == HeapPop(q.jobs, q.heap)
             job_id == popped.item
         IN [q EXCEPT !.heap = popped.heap,
                      !.jobs[job_id].status = "processing",
                      !.dequeued = Append(@, job_id),
                      !.last = QueueCall("dequeue", job_id, <<"queue/job/started">>)]

\* dequeue: _queue.get(timeout) raises Empty on an empty queue and the
\* except returns None
DequeueJob(q) ==
    IF q.heap = <<>> THEN [q EXCEPT !.last = QueueCall("dequeue", 0, <<>>)]
    ELSE LET popped == HeapPop(q.jobs, q.heap)
             job_id == popped.item
         IN [q EXCEPT !.heap = popped.heap,
                      !.jobs[job_id].status = "processing",
                      !.jobs[job_id].attempt_count = @ + 1,
                      !.dequeued = Append(@, job_id),
                      !.last = QueueCall("dequeue", job_id, <<"queue/job/started">>)]

\* complete
CompleteJob(q, job_id) ==
    IF job_id \notin DOMAIN q.jobs THEN [q EXCEPT !.last = QueueCall("complete", job_id, <<>>)]
    ELSE [q EXCEPT !.jobs[job_id].status = "completed",
                   !.stats.completed = @ + 1,
                   !.last = QueueCall("complete", job_id, <<"queue/job/completed">>)]

\* a fail that retries whatever the attempt count is
FailJobAlwaysRetry(q, job_id, error) ==
    IF job_id \notin DOMAIN q.jobs THEN [q EXCEPT !.last = QueueCall("fail", job_id, <<>>)]
    ELSE [q EXCEPT !.jobs[job_id].error_message = error,
                   !.jobs[job_id].status = "pending",
                   !.heap = HeapPush(q.jobs, q.heap, job_id),
                   !.stats.failed = @ + 1,
                   !.last = QueueCall("fail", job_id, <<>>)]

\* fail
FailJob(q, job_id, error) ==
    IF job_id \notin DOMAIN q.jobs THEN [q EXCEPT !.last = QueueCall("fail", job_id, <<>>)]
    ELSE IF q.jobs[job_id].attempt_count < q.jobs[job_id].max_attempts
    THEN [q EXCEPT !.jobs[job_id].error_message = error,
                   !.jobs[job_id].status = "pending",
                   !.heap = HeapPush(q.jobs, q.heap, job_id),
                   !.stats.failed = @ + 1,
                   !.last = QueueCall("fail", job_id, <<>>)]
    ELSE [q EXCEPT !.jobs[job_id].error_message = error,
                   !.jobs[job_id].status = "dead",
                   !.dead_letter = Append(@, job_id),
                   !.stats.dead = @ + 1,
                   !.stats.failed = @ + 1,
                   !.last = QueueCall("fail", job_id, <<"queue/job/dead">>)]

\* ------------------------------------------------------------------------
\* ProcessEngine (app/engines/process_engine.py)
\* ------------------------------------------------------------------------
\* ProcessEngine.__init__: the loop is not running, nothing is submitted to
\* the pool; invocations counts the handler calls per job
InitEngine ==
    [should_run |-> FALSE, submitted |-> {},
     invocations |-> [j \in 1..MaxJobs |-> 0]]


\* threads that call handle_error at the same time
ErrThreads == 1..MaxErrThreads

\* ErrorOrchestrator.__init__: _error_count = 0. handlers are the threads in
\* handle_error, each with its place and the value it loaded from
\* _error_count; calls counts the handle_error calls and ids lists the ids
\* in the order they were assigned
InitErrors ==
    [error_count |-> 0,
     handlers |-> [t \in ErrThreads |-> [pc |-> "idle", loaded |-> 0, error_id |-> 0]],
     calls |-> 0, ids |-> <<>>]

\* threads that hand envelopes and heartbeats to the MessageOrchestrator
RegThreads == 1..MaxRegThreads

\* a client_code that is no key of _clients
Absent == [known |-> FALSE, is_online |-> FALSE, last_seen |-> 0]

\* ClientStatus(client_code, platform, last_seen): is_online defaults to True
ClientStatus(last_seen) == [known |-> TRUE, is_online |-> TRUE, last_seen |-> last_seen]

\* what the orchestrator publishes about a client: the topic and the
\* client_code of the payload
ClientEvent(topic, code) == [topic |-> topic, client_code |-> code]

\* MessageOrchestrator.__init__: _clients = {} and _clients_lock. holder is
\* the thread that holds the lock, threads the callers of
\* _update_client_status, now the clock datetime.now() reads, calls the
\* number of calls made and published the client events in publish order
InitRegistry ==
    [clients |-> [code \in ClientCodes |-> Absent],
     holder |-> 0,
     threads |-> [t \in RegThreads |-> [pc |-> "idle", client_code |-> 0]],
     now |-> 0, calls |-> 0, published |-> <<>>]

\* threads that call get_next_job at the same time, each with a session of
\* its own
AssignThreads == 1..MaxAssignThreads

\* a thread inside get_next_job: idle, or holding the OrderItem its query
\* returned, with the attempt_count the row had when it was read
Session(pc, item, attempt_count) == [pc |-> pc, item |-> item, attempt_count |-> attempt_count]

\* no get_next_job call is running; attempt_count is the column of that name
\* of order_items (0 for a new row) and returned counts, per item, the calls
\* that returned it as a job
InitAssign ==
    [threads |-> [t \in AssignThreads |-> Session("idle", 0, 0)],
     attempt_count |-> [i \in 1..MaxItems |-> 0],
     returned |-> [i \in 1..MaxItems |-> 0]]

NoRequest == [status |-> "none", client_code |-> 0, tokens |-> <<>>, bad |-> 0]

Init ==
    /\ webhook = NoRequest
    /\ bus = InitBus
    /\ queue_orc = InitQueue
    /\ engine = InitEngine
    /\ error_orc = InitErrors
    /\ registry = InitRegistry
    /\ assign = InitAssign
    /\ orders = <<>>
    /\ items = <<>>
    /\ posting_history = EmptyBag
    /\ builder = Idle
    /\ ret = Ret("init", 0, "none")
    /\ error_history = <<>>
    /\ order_vm = FALSE
    /\ env = NoEnvelope

\* ------------------------------------------------------------------------
\* OrderBuilder (app/viewmodels/order_builder.py)
\* ------------------------------------------------------------------------

\* the eligibility query of get_available_clips_random: media with no
\* posting_history row for (client, platform); the product filter is applied
\* only when prod_code is given and names an existing product
Eligible(hist, c, p, prod_code) ==
    {m \in Media :
        /\ ~Posted(hist, c, m, p)
        /\ (prod_code \in Skus => MediaProduct(m) = prod_code)}

\* query.order_by(func.random()).limit(quantity).all()
RandomClips(E, quantity) == SeqsNoRep(E, Min(quantity, Cardinality(E)))

\* the rows create_order adds for an order, one OrderItem per clip, status new
NewItems(order_id, clips) ==
    [k \in 1..Len(clips) |->
        [order_id |-> order_id, media_id |-> clips[k], status |-> "new"]]

NewOrder(c, p) == [client_id |-> c, target_platform |-> p, status |-> "pending"]

\* POST /api/bot/create-order -> OrderBuilder.create_order(platform =
\* client.platform), up to the return of get_available_clips_random, which
\* reads the store in a session of its own
BuilderSelect(code, quantity, prod_code) ==
    /\ builder.pc = "idle"
    /\ Len(orders) < MaxOrders
    /\ LET client == FindClient(code)
           platform == ClientPlatform(client)
       IN
       IF client = NoClient
       THEN /\ ret' = Ret("builder_create_order", 0, "none")
            /\ UNCHANGED builder
       ELSE \E clips \in RandomClips(Eligible(posting_history, client, platform, prod_code), quantity) :
            IF clips = <<>>
            THEN /\ ret' = Ret("builder_create_order", 0, "none")
                 /\ UNCHANGED builder
            ELSE /\ Len(items) + Len(clips) <= MaxItems
                 /\ builder' = [pc |-> "selected", client_id |-> client,
                                platform |-> platform, clips |-> clips]
                 /\ UNCHANGED ret
    /\ UNCHANGED <<orders, items, posting_history, error_history, order_vm, env, extVars>>

\* create_order from session.add(order) to session.commit()
BuilderInsert ==
    /\ builder.pc = "selected"
    /\ Len(orders) < MaxOrders
    /\ Len(items) + Len(builder.clips) <= MaxItems
    /\ orders' = Append(orders, NewOrder(builder.client_id, builder.platform))
    /\ items' = items \o NewItems(Len(orders) + 1, builder.clips)
    /\ builder' = Idle
    /\ ret' = Ret("builder_create_order", Len(orders) + 1, "order")
    /\ UNCHANGED <<posting_history, error_history, order_vm, env, extVars>>

\* the OrderItemPayload list create_order returns: one payload per clip,
\* carrying the id the flush gave the clip's OrderItem
Payloads(first_id, clips) ==
    [k \in 1..Len(clips) |-> [job_id |-> first_id + k - 1, media_id |-> clips[k]]]

\* the tables as the session sees them when the inserts stop at a point:
\* point 0 is before the flush of the order, point k + 1 is after the flush of
\* the order and of the first k items
Flushed(ords, its, b, point) ==
    IF point = 0
    THEN [orders |-> ords, items |-> its]
    ELSE [orders |-> Append(ords, NewOrder(b.client_id, b.platform)),
          items |-> its \o NewItems(Len(ords) + 1, SubSeq(b.clips, 1, point - 1))]

\* a session whose flushed rows stay in the store when the call fails
RollbackKeepsFlushed(store, session) == session

\* session.rollback(): the flushed rows of the open transaction are discarded
Rollback(store, session) == store

\* a store failure at some point of the inserts: except-branch, rollback,
\* return None
BuilderInsertFail ==
    /\ builder.pc = "selected"
    /\ \E point \in 0..Len(builder.clips) :
          LET store == Rollback([orders |-> orders, items |-> items],
                                Flushed(orders, items, builder, point))
          IN /\ orders' = store.orders
             /\ items' = store.items
    /\ builder' = Idle
    /\ ret' = Ret("builder_create_order", 0, "none")
    /\ UNCHANGED <<posting_history, error_history, order_vm, env, extVars>>

\* ------------------------------------------------------------------------
\* OrderVM (app/viewmodels/order_vm.py)
\* ------------------------------------------------------------------------

\* a duplicate check that only compares neighbours at distance two
CheckOrderDuplicatesFar(media_ids) ==
    \E i, j \in DOMAIN media_ids : i + 1 < j /\ media_ids[i] = media_ids[j]

\* check_order_duplicates: some media id occurs twice in the request
CheckOrderDuplicates(media_ids) ==
    \E i, j \in DOMAIN media_ids : i < j /\ media_ids[i] = media_ids[j]

\* check_already_posted: the requested media already in posting_history
CheckAlreadyPosted(hist, c, media_ids, p) ==
    {m \in Range(media_ids) : Posted(hist, c, m, p)}

\* validate_order_media(...).has_duplicates
HasIssues(hist, c, media_ids, p) ==
    CheckOrderDuplicates(media_ids) \/ CheckAlreadyPosted(hist, c, media_ids, p) # {}

MediaLists == UNION {[1..n -> Media] : n \in 0..MaxListLen}

OrderVMCreateOrder(code, media_ids, platform) ==
    /\ Len(orders) < MaxOrders
    /\ Len(items) + Len(media_ids) <= MaxItems
    /\ LET client == FindClient(code) IN
       IF client = NoClient \/ HasIssues(posting_history, client, media_ids, platform)
       THEN /\ ret' = Ret("vm_create_order", 0, "none")
            /\ UNCHANGED <<orders, items>>
       ELSE /\ orders' = Append(orders, NewOrder(client, platform))
            /\ items' = items \o NewItems(Len(orders) + 1, media_ids)
            /\ ret' = Ret("vm_create_order", Len(orders) + 1, "order")
    /\ UNCHANGED <<posting_history, builder, error_history, order_vm, env, extVars>>

\* the rows get_next_job's query selects: status new, in an order of the
\* client on the client's own platform
NewJobsFor(c) ==
    {i \in DOMAIN items :
        /\ items[i].status = "new"
        /\ orders[items[i].order_id].client_id = c
        /\ orders[items[i].order_id].target_platform = ClientPlatform(c)}

\* ORDER BY priority DESC, created_at ASC: priority is never set, so the
\* earliest order comes first; rows of one order are in no defined order
FirstJobs(c) ==
    {i \in NewJobsFor(c) :
        \A k \in NewJobsFor(c) : items[i].order_id <= items[k].order_id}

\* OrderVM.get_next_job, on the store and its return value
GetNextJob(code) ==
    /\ LET client == FindClient(code) IN
       IF client = NoClient \/ FirstJobs(client) = {}
       THEN /\ ret' = Ret("get_next_job", 0, "none")
            /\ UNCHANGED items
       ELSE \E i \in FirstJobs(client) :
            /\ items' = [items EXCEPT ![i].status = "processing"]
            /\ ret' = Ret("get_next_job", i, "job")
    /\ UNCHANGED <<orders, posting_history, error_history>>

\* get_next_job by thread t up to the return of its query: the client is
\* looked up and the first new item of the client is loaded into the session
GetNextJobSelect(t, code) ==
    /\ assign.threads[t].pc = "idle"
    /\ LET client == FindClient(code) IN
       IF client = NoClient \/ FirstJobs(client) = {}
       THEN /\ ret' = Ret("get_next_job", 0, "none")
            /\ UNCHANGED assign
       ELSE \E i \in FirstJobs(client) :
            /\ assign' = [assign EXCEPT
                  !.threads[t] = Session("selected", i, assign.attempt_count[i])]
            /\ UNCHANGED ret
    /\ UNCHANGED <<orders, items, posting_history, builder, error_history, order_vm, env,
                   webhook, bus, queue_orc, engine, error_orc, registry>>

\* get_next_job by thread t from item.status = 'processing' to the return:
\* the commit writes the status and the attempt_count computed in the
\* session, whatever the row holds by now
GetNextJobCommit(t) ==
    LET session == assign.threads[t] IN
    /\ session.pc = "selected"
    /\ items' = [items EXCEPT ![session.item].status = "processing"]
    /\ assign' = [assign EXCEPT
          !.threads[t] = Session("idle", 0, 0),
          !.attempt_count[session.item] = session.attempt_count + 1,
          !.returned[session.item] = @ + 1]
    /\ ret' = Ret("get_next_job", session.item, "job")
    /\ UNCHANGED <<orders, posting_history, builder, error_history, order_vm, env,
                   webhook, bus, queue_orc, engine, error_orc, registry>>

\* the count of the order's items still new or processing
Remaining(its, o) ==
    Cardinality({i \in ItemsOfOrder(its, o) : its[i].status \in {"new", "processing"}})

\* the status report_job writes: 'done', and anything else is a failure
ReportedStatus(status) == IF status = "done" THEN "done" ELSE "failed"

\* the orders table after report_job's completion check on order o
CompletedIfNoneRemain(ords, its, o) ==
    IF Remaining(its, o) = 0
    THEN [ords EXCEPT ![o].status = "completed"]
    ELSE ords

ReportOp(status) == IF status = "done" THEN "report_done" ELSE "report_failed"

\* the topic report_job publishes right after it has set the item's status
JobTopic(status) == IF status = "done" THEN "order/job_completed" ELSE "order/job_failed"

\* what report_job publishes after its completion check on order o
OrderTopics(its, o) == IF Remaining(its, o) = 0 THEN <<"order/completed">> ELSE <<>>

\* OrderVM.report_job, on the store and its return value: one transaction;
\* the IntegrityError of the INSERT rolls it back, is handed to the error
\* orchestrator and makes the call return False. The INSERT is sent to the
\* store by the flush before the completion check's query, which comes after
\* the publish of the job's topic. ret.published are the topics published
ReportJob(job_id, status) ==
    IF job_id \notin DOMAIN items
    THEN /\ ret' = Ret(ReportOp(status), job_id, "false")
         /\ UNCHANGED <<orders, items, posting_history, error_history>>
    ELSE LET o == items[job_id].order_id
             row == TripleOf(orders, items, job_id)
             its == [items EXCEPT ![job_id].status = ReportedStatus(status)]
         IN IF status = "done" /\ UniqueViolation(posting_history, row)
            THEN /\ ret' = [Ret(ReportOp(status), job_id, "false")
                               EXCEPT !.published = <<JobTopic(status)>>]
                 /\ error_history' = HandleError(error_history, "DATABASE")
                 /\ UNCHANGED <<orders, items, posting_history>>
            ELSE /\ items' = its
                 /\ posting_history' = IF status = "done"
                                       THEN posting_history (+) SetToBag({row})
                                       ELSE posting_history
                 /\ orders' = CompletedIfNoneRemain(orders, its, o)
                 /\ ret' = [Ret(ReportOp(status), job_id, "true")
                               EXCEPT !.published = <<JobTopic(status)>> \o OrderTopics(its, o)]
                 /\ UNCHANGED error_history

\* a direct call of OrderVM.get_next_job
CallGetNextJob(code) ==
    /\ GetNextJob(code)
    /\ UNCHANGED <<builder, order_vm, env, extVars>>

\* ------------------------------------------------------------------------
\* Bot REST endpoints (app/api/main.py)
\* ------------------------------------------------------------------------

\* GET /api/bot/confirm/{job_id}
ConfirmJob(job_id) ==
    /\ IF job_id \notin DOMAIN items
       THEN /\ ret' = Ret("confirm_job", job_id, "not_found")
            /\ UNCHANGED items
       ELSE LET it == items[job_id]
                row == TripleOf(orders, items, job_id)
            IN IF it.status \notin {"processing", "new"}
               THEN /\ ret' = Ret("confirm_job", job_id, "not_processable")
                    /\ UNCHANGED items
               ELSE IF BagIn(row, posting_history)
               THEN /\ items' = [items EXCEPT ![job_id].status = "skipped"]
                    /\ ret' = Ret("confirm_job", job_id, "already_posted")
               ELSE /\ items' = [items EXCEPT ![job_id].status = "processing"]
                    /\ ret' = Ret("confirm_job", job_id, "can_post")
    /\ UNCHANGED <<orders, posting_history, builder, error_history, order_vm, env, extVars>>

\* a posting_history row for (media, platform) exists, of whatever client
PostedByAnyone(hist, m, p) == \E c \in Clients : Posted(hist, c, m, p)

\* OrderService.confirm_job, the confirm of the service layer: it only reads
\* the store, accepts status processing alone, and looks for a row of the
\* media on the order's platform without a client filter
ServiceConfirmJob(job_id) ==
    /\ IF job_id \notin DOMAIN items
       THEN ret' = Ret("service_confirm_job", job_id, "not_found")
       ELSE LET job == items[job_id]
                order == orders[job.order_id]
            IN IF job.status # "processing"
               THEN ret' = Ret("service_confirm_job", job_id, "invalid_status")
               ELSE IF PostedByAnyone(posting_history, job.media_id, order.target_platform)
               THEN ret' = Ret("service_confirm_job", job_id, "already_posted_platform")
               ELSE ret' = Ret("service_confirm_job", job_id, "can_post")
    /\ UNCHANGED <<orders, items, posting_history, builder, error_history, order_vm, env, extVars>>

\* what POST /api/bot/report answers for the value report_job returned
ApiReportResponse(res) == IF res = "true" THEN "ok" ELSE "http_404"

\* POST /api/bot/report
ApiReportJob(job_id, status) ==
    /\ ReportJob(job_id, status)
    /\ UNCHANGED <<builder, order_vm, env, extVars>>

JobIds == 1..(Len(items) + 1)

Next ==
    \/ \E code \in ClientCodes, q \in 1..MaxQuantity, pc \in ProdCodes :
          BuilderSelect(code, q, pc)
    \/ BuilderInsert
    \/ BuilderInsertFail
    \/ \E code \in ClientCodes, ms \in MediaLists, p \in Platforms :
          OrderVMCreateOrder(code, ms, p)
    \/ \E code \in ClientCodes : CallGetNextJob(code)
    \/ \E j \in JobIds : ConfirmJob(j)
    \/ \E j \in JobIds, st \in {"done", "failed"} : ApiReportJob(j, st)

Spec == Init /\ [][Next]_vars

\* OrderBuilder.create_order next to the reports that fill posting_history
NextBuilder ==
    \/ \E code \in ClientCodes, q \in 1..MaxQuantity, pc \in ProdCodes :
          BuilderSelect(code, q, pc)
    \/ BuilderInsert
    \/ BuilderInsertFail
    \/ \E j \in JobIds, st \in {"done", "failed"} : ApiReportJob(j, st)

SpecBuilder == Init /\ [][NextBuilder]_vars

\* the two confirm operations next to the calls that create, assign and
\* report jobs
NextConfirm ==
    \/ \E code \in ClientCodes, ms \in MediaLists, p \in Platforms :
          OrderVMCreateOrder(code, ms, p)
    \/ \E code \in ClientCodes : CallGetNextJob(code)
    \/ \E j \in JobIds : ConfirmJob(j)
    \/ \E j \in JobIds : ServiceConfirmJob(j)
    \/ \E j \in JobIds, st \in {"done", "failed"} : ApiReportJob(j, st)

\* orders are created and several threads ask for jobs at the same time
NextAssign ==
    \/ \E code \in Clients, ms \in MediaLists, p \in Platforms :
          OrderVMCreateOrder(code, ms, p)
    \/ \E t \in AssignThreads, code \in ClientCodes : GetNextJobSelect(t, code)
    \/ \E t \in AssignThreads : GetNextJobCommit(t)

SpecAssign == Init /\ [][NextAssign]_vars

SpecConfirm == Init /\ [][NextConfirm]_vars

\* ------------------------------------------------------------------------
\* Message envelope (app/core/message_envelope.py)
\* ------------------------------------------------------------------------
EventTypes == {"request_job", "report_job", "heartbeat", "log"}

Response(token, type, code, job_id) ==
    [reply_token |-> token, type |-> type, code |-> code, job_id |-> job_id]

\* ResponseEnvelope.create_job_assignment
CreateJobAssignment(token, job_id) == Response(token, "job_assignment", "", job_id)

\* ResponseEnvelope.create_text
CreateText(token) == Response(token, "text", "", 0)

\* ResponseEnvelope.create_error
CreateError(token, code) == Response(token, "error", code, 0)

\* an acknowledgement that does not carry the reply token
CreateAckNoToken(token) == Response(0, "ack", "", 0)

\* ResponseEnvelope.create_ack
CreateAck(token) == Response(token, "ack", "", 0)

\* ------------------------------------------------------------------------
\* MessageOrchestrator (app/core/message_orchestrator.py)
\* ------------------------------------------------------------------------

\* reply tokens of the events of one envelope
TokenSeqs == UNION {SeqsNoRep(1..MaxEvents, n) : n \in 0..MaxEvents}

\* the events a bot can put at one position of an envelope
EventsIn ==
    {[type |-> "request_job", job_id |-> 0, status |-> "", level |-> ""],
     [type |-> "heartbeat", job_id |-> 0, status |-> "", level |-> ""],
     [type |-> "bogus", job_id |-> 0, status |-> "", level |-> ""]}
    \cup {[type |-> "log", job_id |-> 0, status |-> "", level |-> l] :
             l \in {"info", "not_a_string"}}
    \cup {[type |-> "report_job", job_id |-> j, status |-> st, level |-> ""] :
             j \in JobIds, st \in {"done", "failed"}}

\* set_order_vm
SetOrderVm ==
    /\ ~order_vm
    /\ order_vm' = TRUE
    /\ UNCHANGED <<orders, items, posting_history, builder, ret, error_history, env, extVars>>

\* process_envelope up to the loop: responses = [], the envelope's events
ProcessEnvelope(code, tokens) ==
    /\ env.pc # "running"
    /\ env' = [pc |-> IF tokens = <<>> THEN "done" ELSE "running",
               client_code |-> code, tokens |-> tokens, pos |-> 1,
               cur |-> NoEvent, responses |-> <<>>, counted |-> "none"]
    /\ UNCHANGED <<orders, items, posting_history, builder, ret, error_history, order_vm, extVars>>

\* the loop appends the response of the event at pos and moves on; after the
\* last event process_envelope returns the responses
Answer(e, event, response) ==
    [e EXCEPT !.responses = Append(@, response),
              !.cur = event,
              !.counted = "none",
              !.pos = @ + 1,
              !.pc = IF e.pos = Len(e.tokens) THEN "done" ELSE "running"]

\* a loop without the try/except: the exception ends process_envelope
OnExceptionAbort(e, event) == [e EXCEPT !.pc = "failed", !.cur = event]

\* the except-branch of the loop: the response of an event whose handler raised
OnException(e, event) ==
    Answer(e, event, CreateError(e.tokens[e.pos], "PROCESSING_ERROR"))

\* the event at pos is dispatched next
Dispatching == env.pc = "running" /\ env.pos <= Len(env.tokens)

\* _handle_request_job
HandleRequestJob(event) ==
    /\ Dispatching
    /\ event.type = "request_job"
    /\ IF order_vm
       THEN /\ GetNextJob(env.client_code)
            /\ env' = Answer(env, event,
                             IF ret'.res = "job"
                             THEN CreateJobAssignment(env.tokens[env.pos], ret'.arg)
                             ELSE CreateText(env.tokens[env.pos]))
       ELSE /\ env' = Answer(env, event, CreateText(env.tokens[env.pos]))
            /\ UNCHANGED vmVars
    /\ UNCHANGED <<builder, order_vm, extVars>>

\* the response _handle_report_job builds; the value report_job returned is
\* not looked at
ReportResponse(token, res) == CreateAck(token)

\* the counter of the sender's ClientStatus _handle_report_job increments;
\* the sender is in _clients since process_envelope registered it
ReportCounter(status) == IF status = "done" THEN "jobs_completed" ELSE "jobs_failed"

\* _handle_report_job
HandleReportJob(event) ==
    /\ Dispatching
    /\ event.type = "report_job"
    /\ IF order_vm
       THEN /\ ReportJob(event.job_id, event.status)
            /\ env' = [Answer(env, event, ReportResponse(env.tokens[env.pos], ret'.res))
                          EXCEPT !.counted = ReportCounter(event.status)]
       ELSE /\ env' = [Answer(env, event, ReportResponse(env.tokens[env.pos], "none"))
                          EXCEPT !.counted = ReportCounter(event.status)]
            /\ UNCHANGED vmVars
    /\ UNCHANGED <<builder, order_vm, extVars>>

\* _handle_heartbeat
HandleHeartbeat(event) ==
    /\ Dispatching
    /\ event.type = "heartbeat"
    /\ env' = Answer(env, event, CreateAck(env.tokens[env.pos]))
    /\ UNCHANGED <<orders, items, posting_history, builder, ret, error_history, order_vm, extVars>>

\* level.upper() raises when the payload's level is not a string
LogRaises(event) == event.level = "not_a_string"

\* _handle_log, and the loop's except-branch when it raises
HandleLog(event) ==
    /\ Dispatching
    /\ event.type = "log"
    /\ IF LogRaises(event)
       THEN /\ error_history' = HandleError(error_history, "UNKNOWN")
            /\ env' = OnException(env, event)
       ELSE /\ env' = Answer(env, event, CreateAck(env.tokens[env.pos]))
            /\ UNCHANGED error_history
    /\ UNCHANGED <<orders, items, posting_history, builder, ret, order_vm, extVars>>

\* the loop's else-branch: no handler for the event's type
HandleUnknown(event) ==
    /\ Dispatching
    /\ event.type \notin EventTypes
    /\ env' = Answer(env, event, CreateError(env.tokens[env.pos], "UNKNOWN_EVENT"))
    /\ UNCHANGED <<orders, items, posting_history, builder, ret, error_history, order_vm, extVars>>

\* the orchestrator with the bots' create-order calls, for at most
\* EnvMaxOrders orders
NextEnvelope ==
    \/ SetOrderVm
    \/ \E code \in ClientCodes, q \in 1..MaxQuantity, pc \in ProdCodes :
          Len(orders) < EnvMaxOrders /\ BuilderSelect(code, q, pc)
    \/ BuilderInsert
    \/ \E code \in ClientCodes, tokens \in TokenSeqs : ProcessEnvelope(code, tokens)
    \/ \E event \in EventsIn : HandleRequestJob(event)
    \/ \E event \in EventsIn : HandleReportJob(event)
    \/ \E event \in EventsIn : HandleHeartbeat(event)
    \/ \E event \in EventsIn : HandleLog(event)
    \/ \E event \in EventsIn : HandleUnknown(event)

SpecEnvelope == Init /\ [][NextEnvelope]_vars

\* ------------------------------------------------------------------------
\* POST /api/webhook (app/api/main.py)
\* ------------------------------------------------------------------------

\* the webhook up to the call of process_envelope. `bad` is the position of
\* the first event whose type is not an EventType (0: there is none):
\* MessageEnvelope.from_dict builds every Event before the orchestrator sees
\* any, and EventType(type) raises ValueError there; the endpoint's except
\* hands it to the error orchestrator and answers HTTP 500
Webhook(code, tokens, bad) ==
    /\ webhook.status # "processing"
    /\ env.pc # "running"
    /\ bad \in 0..Len(tokens)
    /\ IF bad # 0
       THEN /\ webhook' = [status |-> "http_500", client_code |-> code,
                           tokens |-> tokens, bad |-> bad]
            /\ error_history' = HandleError(error_history, "NETWORK")
            /\ UNCHANGED env
       ELSE /\ webhook' = [status |-> "processing", client_code |-> code,
                           tokens |-> tokens, bad |-> 0]
            /\ env' = [pc |-> IF tokens = <<>> THEN "done" ELSE "running",
                       client_code |-> code, tokens |-> tokens, pos |-> 1,
                       cur |-> NoEvent, responses |-> <<>>]
            /\ UNCHANGED error_history
    /\ UNCHANGED <<orders, items, posting_history, builder, ret, order_vm,
                   bus, queue_orc, engine, error_orc, registry, assign>>

\* process_envelope has returned: the responses are converted and sent
WebhookReturn ==
    /\ webhook.status = "processing"
    /\ env.pc = "done"
    /\ webhook' = [webhook EXCEPT !.status = "http_200"]
    /\ UNCHANGED <<orders, items, posting_history, builder, ret, error_history,
                   order_vm, env, bus, queue_orc, engine, error_orc, registry, assign>>

\* the orchestrator behind the webhook: every envelope comes through
\* MessageEnvelope.from_dict
NextWebhook ==
    \/ SetOrderVm
    \/ \E code \in ClientCodes, tokens \in TokenSeqs, bad \in 0..MaxEvents :
          Webhook(code, tokens, bad)
    \/ WebhookReturn
    \/ \E event \in EventsIn : HandleRequestJob(event)
    \/ \E event \in EventsIn : HandleReportJob(event)
    \/ \E event \in EventsIn : HandleHeartbeat(event)
    \/ \E event \in EventsIn : HandleLog(event)

SpecWebhook == Init /\ [][NextWebhook]_vars

\* ------------------------------------------------------------------------
\* EventBus: subscribe, unsubscribe, publish
\* ------------------------------------------------------------------------
\* the pattern in the debug line subscribe and unsubscribe log when they
\* change the table, <<>> when they log nothing
Logged(table, after, pattern) == IF after # table THEN pattern ELSE <<>>

Subscribe(pattern, callback) ==
    /\ LET after == SubscribeTo(bus.subscribers, pattern, callback)
       IN bus' = [Quiet(bus, "subscribe")
                     EXCEPT !.subscribers = after,
                            !.last = Call("subscribe", Logged(bus.subscribers, after, pattern))]
    /\ UNCHANGED <<orders, items, posting_history, builder, ret, error_history,
                   order_vm, env, webhook, queue_orc, engine, error_orc, registry, assign>>

Unsubscribe(pattern, callback) ==
    /\ LET after == UnsubscribeFrom(bus.subscribers, pattern, callback)
       IN bus' = [Quiet(bus, "unsubscribe")
                     EXCEPT !.subscribers = after,
                            !.last = Call("unsubscribe", Logged(bus.subscribers, after, pattern))]
    /\ UNCHANGED <<orders, items, posting_history, builder, ret, error_history,
                   order_vm, env, webhook, queue_orc, engine, error_orc, registry, assign>>

\* publish: the topic check, then _deliver_message on the caller's thread
Publish(topic) ==
    /\ bus' = IF HasWildcard(topic)
              THEN [bus EXCEPT !.last = Call("publish", topic),
                               !.calls = <<>>, !.raised = "ValueError"]
              ELSE [DeliverMessage(bus, Message(topic, 0))
                        EXCEPT !.last = Call("publish", topic)]
    /\ UNCHANGED <<orders, items, posting_history, builder, ret, error_history,
                   order_vm, env, webhook, queue_orc, engine, error_orc, registry, assign>>

\* the table has at most `keys` keys and `subs` subscriptions
TableWithin(table, keys, subs) == Len(table) <= keys /\ Len(Subscriptions(table)) <= subs

\* the bus used synchronously by one subscriber, with every pattern
NextBus ==
    \/ \E pattern \in Patterns, callback \in {"h1"} :
          /\ TableWithin(SubscribeTo(bus.subscribers, pattern, callback), MaxKeys, MaxKeys)
          /\ Subscribe(pattern, callback)
    \/ \E pattern \in Patterns, callback \in {"h1"} : Unsubscribe(pattern, callback)
    \/ \E topic \in Topics : Publish(topic)

SpecBus == Init /\ [][NextBus]_vars

\* patterns of the subscribers of one topic family
FanoutPatterns == {<<"a", "*">>, <<"#">>}

\* fan-out to up to FanoutMaxSubs subscribers, some of which raise
NextFanout ==
    \/ \E pattern \in FanoutPatterns, callback \in Callbacks :
          /\ TableWithin(SubscribeTo(bus.subscribers, pattern, callback),
                         FanoutMaxSubs, FanoutMaxSubs)
          /\ Subscribe(pattern, callback)
    \/ \E topic \in Topics : Publish(topic)

SpecFanout == Init /\ [][NextFanout]_vars

\* topics of that family, one of them not publishable
SubsTopics == {<<"a">>, <<"b">>, <<"a", "b">>, <<"*">>}

\* subscribers that come and go on the patterns of one topic family
NextSubs ==
    \/ \E pattern \in FanoutPatterns, callback \in Callbacks :
          /\ TableWithin(SubscribeTo(bus.subscribers, pattern, callback),
                         FanoutMaxSubs, FanoutMaxSubs)
          /\ Subscribe(pattern, callback)
    \/ \E pattern \in FanoutPatterns, callback \in Callbacks :
          Unsubscribe(pattern, callback)
    \/ \E topic \in SubsTopics : Publish(topic)

SpecSubs == Init /\ [][NextSubs]_vars

\* ------------------------------------------------------------------------
\* EventBus: publish_async and the async worker
\* ------------------------------------------------------------------------
busFrame == <<orders, items, posting_history, builder, ret, error_history,
              order_vm, env, webhook, queue_orc, engine, error_orc, registry, assign>>

\* publish_async: the topic check, then _message_queue.put(message)
PublishAsync(topic) ==
    /\ bus' = IF HasWildcard(topic)
              THEN [bus EXCEPT !.last = Call("publish_async", topic),
                               !.calls = <<>>, !.raised = "ValueError"]
              ELSE [Quiet(bus, "publish_async")
                        EXCEPT !.last = Call("publish_async", topic),
                               !.message_queue = Append(@, Message(topic, bus.accepted + 1)),
                               !.accepted = @ + 1,
                               !.restarted = IF bus.running /\ bus.stopped # {}
                                             THEN @ \cup {bus.accepted + 1} ELSE @]
    /\ UNCHANGED busFrame

\* the bus after the entry of a start_async_worker / stop_async_worker call
Control(b, op) == [Quiet(b, op) EXCEPT !.tick = 1 - @]

\* start_async_worker, called by the thread that controls the bus
StartAsyncWorker ==
    /\ bus.joining = NoThread
    /\ IF bus.running
       THEN bus' = Control(bus, "start_async_worker")
       ELSE /\ \E w \in Workers : bus.workers[w].pc = "unborn"
            /\ LET w == CHOOSE w \in Workers :
                          /\ bus.workers[w].pc = "unborn"
                          /\ \A v \in 1..(w - 1) : bus.workers[v].pc # "unborn"
               IN bus' = [Control(bus, "start_async_worker")
                              EXCEPT !.running = TRUE,
                                     !.worker_thread = w,
                                     !.workers[w] = Thread("loop", Sentinel)]
    /\ UNCHANGED busFrame

\* stop_async_worker up to the join: _running = False and, when there is a
\* worker thread, the sentinel is put and the caller waits in join(timeout)
StopAsyncWorker ==
    /\ bus.joining = NoThread
    /\ bus' = IF bus.worker_thread = NoThread
              THEN [Control(bus, "stop_async_worker") EXCEPT !.running = FALSE]
              ELSE [Control(bus, "stop_async_worker")
                        EXCEPT !.running = FALSE,
                               !.message_queue = Append(@, Sentinel),
                               !.joining = bus.worker_thread,
                               !.stopped = @ \cup {bus.worker_thread}]
    /\ UNCHANGED busFrame

\* join(timeout=2.0) gives up on a thread that is inside _deliver_message (in
\* a callback, or waiting for _sub_lock) for longer than the timeout
JoinTimesOut(w) == bus.workers[w].pc = "deliver"

\* join returns, the thread has ended or not: _worker_thread = None
StopJoinReturn ==
    /\ bus.joining # NoThread
    /\ bus.workers[bus.joining].pc = "exited" \/ JoinTimesOut(bus.joining)
    /\ bus' = [bus EXCEPT !.worker_thread = NoThread, !.joining = NoThread]
    /\ UNCHANGED busFrame

\* _async_worker: while self._running
WorkerLoop(w) ==
    /\ bus.workers[w].pc = "loop"
    /\ bus' = [bus EXCEPT !.workers[w].pc = IF bus.running THEN "get" ELSE "exited"]
    /\ UNCHANGED busFrame

\* _async_worker: message = _message_queue.get(); the sentinel ends the thread
WorkerGet(w) ==
    /\ bus.workers[w].pc = "get"
    /\ bus.message_queue # <<>>
    /\ LET message == Head(bus.message_queue) IN
       bus' = [bus EXCEPT !.message_queue = Tail(@),
                          !.workers[w] = IF message = Sentinel
                                         THEN Thread("exited", Sentinel)
                                         ELSE Thread("deliver", message)]
    /\ UNCHANGED busFrame

\* _async_worker: self._deliver_message(message)
WorkerDeliver(w) ==
    /\ bus.workers[w].pc = "deliver"
    /\ LET message == bus.workers[w].msg
           b == DeliverMessage(bus, message)
       IN bus' = [b EXCEPT !.last = Call("deliver", message.topic),
                           !.workers[w] = Thread("loop", Sentinel),
                           !.delivered = IF b.calls = <<>> THEN @ ELSE Append(@, message)]
    /\ UNCHANGED busFrame

AsyncTopics == {<<"a">>, <<"b">>, <<"*">>}

\* the bus with its async worker, one subscriber of every topic, and a
\* controlling thread that starts and stops the worker
NextAsync ==
    \/ /\ TableWithin(SubscribeTo(bus.subscribers, <<"#">>, "h1"), 1, 1)
       /\ Subscribe(<<"#">>, "h1")
    \/ \E topic \in AsyncTopics : bus.accepted < MaxAsync /\ PublishAsync(topic)
    \/ StartAsyncWorker
    \/ StopAsyncWorker
    \/ StopJoinReturn
    \/ \E w \in Workers : WorkerLoop(w)
    \/ \E w \in Workers : WorkerGet(w)
    \/ \E w \in Workers : WorkerDeliver(w)

SpecAsync == Init /\ [][NextAsync]_vars

\* both ways to publish, on the caller's thread and through the queue, with
\* one subscriber of every topic and no worker running
NextPublish ==
    \/ /\ TableWithin(SubscribeTo(bus.subscribers, <<"#">>, "h1"), 1, 1)
       /\ Subscribe(<<"#">>, "h1")
    \/ \E topic \in AsyncTopics : Publish(topic)
    \/ \E topic \in AsyncTopics : bus.accepted < MaxAsync /\ PublishAsync(topic)

SpecPublish == Init /\ [][NextPublish]_vars

\* ------------------------------------------------------------------------
\* ErrorOrchestrator.handle_error called by several threads
\* ------------------------------------------------------------------------
errFrame == <<orders, items, posting_history, builder, ret, order_vm, env,
             webhook, bus, queue_orc, engine, registry, assign>>

\* self._error_count += 1, first half: the attribute is loaded
HandleErrorLoad(t) ==
    /\ error_orc.handlers[t].pc = "idle"
    /\ error_orc' = [error_orc EXCEPT !.handlers[t].pc = "store",
                                      !.handlers[t].loaded = error_orc.error_count,
                                      !.calls = @ + 1]
    /\ UNCHANGED <<errFrame, error_history>>

\* self._error_count += 1, second half: the loaded value plus one
Increment(count, loaded) == loaded + 1

\* self._error_count += 1, second half: the sum is stored
HandleErrorStore(t) ==
    /\ error_orc.handlers[t].pc = "store"
    /\ error_orc' = [error_orc EXCEPT
                        !.handlers[t].pc = "format",
                        !.error_count = Increment(@, error_orc.handlers[t].loaded)]
    /\ UNCHANGED <<errFrame, error_history>>

\* error_id = f"ERR-{self._error_count:06d}": the attribute is read again;
\* the id is kept as the number it formats
HandleErrorFormat(t) ==
    /\ error_orc.handlers[t].pc = "format"
    /\ error_orc' = [error_orc EXCEPT
                        !.handlers[t].pc = "record",
                        !.handlers[t].error_id = error_orc.error_count,
                        !.ids = Append(@, error_orc.error_count)]
    /\ UNCHANGED <<errFrame, error_history>>

\* the rest of handle_error: the record goes into the history and is returned
HandleErrorRecord(t) ==
    /\ error_orc.handlers[t].pc = "record"
    /\ error_history' = HandleError(error_history, "UNKNOWN")
    /\ error_orc' = [error_orc EXCEPT
                        !.handlers[t] = [pc |-> "idle", loaded |-> 0, error_id |-> 0]]
    /\ UNCHANGED errFrame

\* MaxErrThreads threads report MaxErrors errors between them
NextErrors ==
    \/ \E t \in ErrThreads : error_orc.calls < MaxErrors /\ HandleErrorLoad(t)
    \/ \E t \in ErrThreads : HandleErrorStore(t)
    \/ \E t \in ErrThreads : HandleErrorFormat(t)
    \/ \E t \in ErrThreads : HandleErrorRecord(t)

SpecErrors == Init /\ [][NextErrors]_vars

\* ------------------------------------------------------------------------
\* MessageOrchestrator: the client registry
\* ------------------------------------------------------------------------
regFrame == <<orders, items, posting_history, builder, ret, error_history,
             order_vm, env, webhook, queue_orc, engine, error_orc, assign>>

\* a registry without _clients_lock: the with statement lets every thread in
LockOff(r) == TRUE

\* with self._clients_lock: the lock is handed to one thread at a time
LockFree(r) == r.holder = 0

\* self._event_bus.publish(topic, {'client_code': ...}) on the bus b
PublishClientEvent(b, topic, code) ==
    [DeliverMessage(b, Message(topic, code)) EXCEPT !.last = Call("publish", topic)]

\* process_envelope (or POST /api/bot/heartbeat) calls _update_client_status
\* and the thread enters the with block
UpdateAcquire(t, code) ==
    /\ registry.threads[t].pc = "idle"
    /\ LockFree(registry)
    /\ registry' = [registry EXCEPT !.holder = t,
                                    !.threads[t] = [pc |-> "test", client_code |-> code],
                                    !.calls = @ + 1]
    /\ UNCHANGED <<regFrame, bus>>

\* if client_code not in self._clients
UpdateTest(t) ==
    /\ registry.threads[t].pc = "test"
    /\ registry' = [registry EXCEPT !.threads[t].pc =
                       IF registry.clients[registry.threads[t].client_code].known
                       THEN "refresh" ELSE "insert"]
    /\ UNCHANGED <<regFrame, bus>>

\* the new ClientStatus is stored and client/connected is published
UpdateInsert(t) ==
    /\ registry.threads[t].pc = "insert"
    /\ LET code == registry.threads[t].client_code IN
       /\ registry' = [registry EXCEPT
                          !.clients[code] = ClientStatus(registry.now + 1),
                          !.now = @ + 1,
                          !.published = Append(@, ClientEvent(<<"client", "connected">>, code)),
                          !.threads[t].pc = "release"]
       /\ bus' = PublishClientEvent(bus, <<"client", "connected">>, code)
    /\ UNCHANGED regFrame

\* else: last_seen = datetime.now(), is_online = True
UpdateRefresh(t) ==
    /\ registry.threads[t].pc = "refresh"
    /\ LET code == registry.threads[t].client_code IN
       registry' = [registry EXCEPT
                       !.clients[code].last_seen = registry.now + 1,
                       !.clients[code].is_online = TRUE,
                       !.now = @ + 1,
                       !.threads[t].pc = "release"]
    /\ UNCHANGED <<regFrame, bus>>

\* the end of the with block
UpdateRelease(t) ==
    /\ registry.threads[t].pc = "release"
    /\ registry' = [registry EXCEPT !.holder = 0,
                                    !.threads[t] = [pc |-> "idle", client_code |-> 0]]
    /\ UNCHANGED <<regFrame, bus>>

\* mark_client_offline, all of it under the lock
MarkClientOffline(code) ==
    /\ LockFree(registry)
    /\ IF registry.clients[code].known
       THEN /\ registry' = [registry EXCEPT
                               !.clients[code].is_online = FALSE,
                               !.published = Append(@, ClientEvent(<<"client", "disconnected">>, code)),
                               !.calls = @ + 1]
            /\ bus' = PublishClientEvent(bus, <<"client", "disconnected">>, code)
       ELSE /\ registry' = [registry EXCEPT !.calls = @ + 1]
            /\ UNCHANGED bus
    /\ UNCHANGED regFrame

\* MaxRegThreads threads bring in MaxEnvelopes envelopes and offline marks
NextClients ==
    \/ \E t \in RegThreads, code \in ClientCodes :
          registry.calls < MaxEnvelopes /\ UpdateAcquire(t, code)
    \/ \E t \in RegThreads : UpdateTest(t)
    \/ \E t \in RegThreads : UpdateInsert(t)
    \/ \E t \in RegThreads : UpdateRefresh(t)
    \/ \E t \in RegThreads : UpdateRelease(t)
    \/ \E code \in ClientCodes :
          registry.calls < MaxEnvelopes /\ MarkClientOffline(code)

SpecClients == Init /\ [][NextClients]_vars

\* ------------------------------------------------------------------------
\* EventBus: publish called by several threads, statement by statement
\* ------------------------------------------------------------------------

\* publish up to self._history.append(message), which the interpreter runs
\* as one step
PublishAppend(t, topic) ==
    /\ bus.publishers[t].pc = "idle"
    /\ ~HasWildcard(topic)
    /\ LET message == Message(topic, Len(bus.appended) + 1) IN
       bus' = [bus EXCEPT !.history = Append(@, message),
                          !.appended = Append(@, message),
                          !.publishers[t] = Publisher("len", message, <<>>)]
    /\ UNCHANGED busFrame

\* if len(self._history) > self._history_limit
PublishLen(t) ==
    /\ bus.publishers[t].pc = "len"
    /\ bus' = [bus EXCEPT !.publishers[t].pc =
                  IF Len(bus.history) > BusHistoryLimit THEN "slice" ELSE "fanout"]
    /\ UNCHANGED busFrame

\* the right-hand side self._history[-self._history_limit:], a new list
PublishSlice(t) ==
    /\ bus.publishers[t].pc = "slice"
    /\ bus' = [bus EXCEPT !.publishers[t].pc = "store",
                          !.publishers[t].slice = KeepLast(bus.history, BusHistoryLimit)]
    /\ UNCHANGED busFrame

\* the assignment self._history = <the new list>
PublishStore(t) ==
    /\ bus.publishers[t].pc = "store"
    /\ bus' = [bus EXCEPT !.history = bus.publishers[t].slice,
                          !.publishers[t].pc = "fanout",
                          !.publishers[t].slice = <<>>]
    /\ UNCHANGED busFrame

\* the fan-out, all of it under _sub_lock, and the return of publish
PublishFanout(t) ==
    /\ bus.publishers[t].pc = "fanout"
    /\ LET message == bus.publishers[t].msg IN
       bus' = [bus EXCEPT !.calls = Invoked(Matching(bus.subscribers, message)),
                          !.raised = "none",
                          !.last = Call("publish", message.topic),
                          !.fanned_out = Append(@, message),
                          !.publishers[t] = Publisher("idle", Sentinel, <<>>)]
    /\ UNCHANGED busFrame

\* MaxPublishers threads publish MaxPublished messages between them
NextHistory ==
    \/ \E t \in Publishers :
          Len(bus.appended) < MaxPublished /\ PublishAppend(t, <<"a">>)
    \/ \E t \in Publishers : PublishLen(t)
    \/ \E t \in Publishers : PublishSlice(t)
    \/ \E t \in Publishers : PublishStore(t)
    \/ \E t \in Publishers : PublishFanout(t)

SpecHistory == Init /\ [][NextHistory]_vars

\* ------------------------------------------------------------------------
\* EventBus: the fan-out callback by callback, next to subscribe/unsubscribe
\* ------------------------------------------------------------------------

\* a bus whose with statements let every thread in
SubLockOff(b) == TRUE

\* with self._sub_lock: the lock is handed to one thread at a time
SubLockFree(b) == b.sub_lock = NoThread

\* publish up to the with statement of _deliver_message: the history entry,
\* then the thread takes _sub_lock
FanoutAcquire(t, topic) ==
    /\ bus.fanouts[t].pc = "idle"
    /\ ~HasWildcard(topic)
    /\ SubLockFree(bus)
    /\ LET message == Message(topic, 0) IN
       bus' = [bus EXCEPT !.history = KeepLast(Append(@, message), BusHistoryLimit),
                          !.sub_lock = t,
                          !.fanouts[t] = Fanout("walk", message, 1, bus.subscribers, <<>>)]
    /\ UNCHANGED busFrame

\* one round of the loops over _subscribers.items() and callbacks: the next
\* subscription is tested and, when its pattern matches, its callback called
FanoutCall(t) ==
    /\ bus.fanouts[t].pc = "walk"
    /\ bus.fanouts[t].pos <= Len(Subscriptions(bus.subscribers))
    /\ LET sub == Subscriptions(bus.subscribers)[bus.fanouts[t].pos] IN
       bus' = [bus EXCEPT !.fanouts[t].pos = @ + 1,
                          !.fanouts[t].invoked =
                              IF TopicMatches(sub.pattern, bus.fanouts[t].msg.topic)
                              THEN Append(@, sub) ELSE @]
    /\ UNCHANGED busFrame

\* the loops are through: the lock is released and publish returns
FanoutRelease(t) ==
    /\ bus.fanouts[t].pc = "walk"
    /\ bus.fanouts[t].pos > Len(Subscriptions(bus.subscribers))
    /\ bus' = [bus EXCEPT !.sub_lock = NoThread,
                          !.fanouts[t] = Fanout("idle", Sentinel, 1, <<>>, <<>>),
                          !.calls = bus.fanouts[t].invoked,
                          !.raised = "none",
                          !.last = Call("publish", bus.fanouts[t].msg.topic)]
    /\ UNCHANGED busFrame

\* publishing threads next to a thread that subscribes and unsubscribes;
\* subscribe and unsubscribe wait for _sub_lock
NextLock ==
    \/ \E t \in Publishers : FanoutAcquire(t, <<"a", "b">>)
    \/ \E t \in Publishers : FanoutCall(t)
    \/ \E t \in Publishers : FanoutRelease(t)
    \/ \E pattern \in FanoutPatterns, callback \in {"h1", "h2"} :
          /\ SubLockFree(bus)
          /\ TableWithin(SubscribeTo(bus.subscribers, pattern, callback),
                         FanoutMaxSubs, FanoutMaxSubs)
          /\ Subscribe(pattern, callback)
    \/ \E pattern \in FanoutPatterns, callback \in {"h1", "h2"} :
          /\ SubLockFree(bus)
          /\ Unsubscribe(pattern, callback)

SpecLock == Init /\ [][NextLock]_vars

\* ------------------------------------------------------------------------
\* EventBus: callbacks that call the bus they are called from. LogOrchestrator
\* publishes log/* on every info, warning and error, so a callback that logs
\* publishes; other callbacks subscribe or unsubscribe
\* ------------------------------------------------------------------------
\* the call a callback makes on the bus while it runs: "none" for a callback
\* that leaves the bus alone
CallbackOp(cb) ==
    IF cb = "log" THEN "publish"
    ELSE IF cb = "sub" THEN "subscribe"
    ELSE IF cb = "unsub" THEN "unsubscribe"
    ELSE "none"

ReentryCallbacks == {"h1", "log", "sub", "unsub"}
LogTopic == <<"log", "info">>

\* publish up to the with statement of _deliver_message: the history entry
\* is made and the thread asks for _sub_lock
ReentryPublish(t, topic) ==
    /\ bus.fanouts[t].pc = "idle"
    /\ ~HasWildcard(topic)
    /\ LET message == Message(topic, 0) IN
       bus' = [bus EXCEPT !.history = KeepLast(Append(@, message), BusHistoryLimit),
                          !.fanouts[t] = Fanout("acquire", message, 1, <<>>, <<>>)]
    /\ UNCHANGED busFrame

\* with self._sub_lock, of _deliver_message, subscribe or unsubscribe: the
\* thread gets the lock when no thread holds it. A publish goes on to its
\* loops; the call a callback makes is done under the lock, which the end of
\* its with statement releases, and the callback returns to the loops
LockAcquire(t) ==
    LET f == bus.fanouts[t] IN
    /\ f.pc \in {"acquire", "publish", "subscribe", "unsubscribe"}
    /\ SubLockFree(bus)
    /\ bus' =
         IF f.pc = "acquire"
         THEN [bus EXCEPT !.sub_lock = t, !.fanouts[t].pc = "walk"]
         ELSE IF f.pc = "publish"
         THEN [DeliverMessage(bus, Message(LogTopic, 0)) EXCEPT !.fanouts[t].pc = "walk"]
         ELSE IF f.pc = "subscribe"
         THEN [bus EXCEPT !.subscribers = SubscribeTo(@, LogTopic, "h1"),
                          !.fanouts[t].pc = "walk"]
         ELSE [bus EXCEPT !.subscribers = UnsubscribeFrom(@, <<"#">>, "unsub"),
                          !.fanouts[t].pc = "walk"]
    /\ UNCHANGED busFrame

\* one round of the loops of _deliver_message: the next subscription is
\* tested and, when its pattern matches, its callback is called; a callback
\* that calls the bus gets to the with statement of that call
ReentryCall(t) ==
    /\ bus.fanouts[t].pc = "walk"
    /\ bus.fanouts[t].pos <= Len(Subscriptions(bus.subscribers))
    /\ LET sub == Subscriptions(bus.subscribers)[bus.fanouts[t].pos]
           called == TopicMatches(sub.pattern, bus.fanouts[t].msg.topic)
       IN bus' = [bus EXCEPT
             !.fanouts[t].pos = @ + 1,
             !.fanouts[t].invoked = IF called THEN Append(@, sub) ELSE @,
             !.fanouts[t].pc = IF called /\ CallbackOp(sub.callback) # "none"
                               THEN CallbackOp(sub.callback) ELSE "walk"]
    /\ UNCHANGED busFrame

\* threads that publish to subscribers of which some call the bus
NextReentry ==
    \/ \E pattern \in FanoutPatterns, callback \in ReentryCallbacks :
          /\ SubLockFree(bus)
          /\ TableWithin(SubscribeTo(bus.subscribers, pattern, callback),
                         FanoutMaxSubs, FanoutMaxSubs)
          /\ Subscribe(pattern, callback)
    \/ \E t \in Publishers, topic \in {<<"a", "b">>, LogTopic} : ReentryPublish(t, topic)
    \/ \E t \in Publishers : LockAcquire(t)
    \/ \E t \in Publishers : ReentryCall(t)
    \/ \E t \in Publishers : FanoutRelease(t)

SpecReentry == Init /\ [][NextReentry]_vars

\* every publishing thread is scheduled again and again
FairReentry ==
    \A t \in Publishers :
        /\ WF_vars(LockAcquire(t))
        /\ WF_vars(ReentryCall(t))
        /\ WF_vars(FanoutRelease(t))

SpecReentryFair == Init /\ [][NextReentry]_vars /\ FairReentry

\* the threads are scheduled fairly and join(timeout) returns
FairAsync ==
    /\ \A w \in Workers : WF_vars(WorkerLoop(w))
    /\ \A w \in Workers : WF_vars(WorkerGet(w))
    /\ \A w \in Workers : WF_vars(WorkerDeliver(w))
    /\ WF_vars(StopJoinReturn)

SpecAsyncFair == Init /\ [][NextAsync]_vars /\ FairAsync

\* ------------------------------------------------------------------------
\* QueueOrchestrator and ProcessEngine: the calls
\* ------------------------------------------------------------------------
queueFrame == <<orders, items, posting_history, builder, ret, error_history,
                order_vm, env, webhook, bus, error_orc, registry, assign>>

Enqueue(job_type, priority, max_attempts) ==
    /\ queue_orc' = EnqueueJob(queue_orc, job_type, priority, max_attempts)
    /\ UNCHANGED <<queueFrame, engine>>

Dequeue ==
    /\ queue_orc' = DequeueJob(queue_orc)
    /\ UNCHANGED <<queueFrame, engine>>

Complete(job_id) ==
    /\ queue_orc' = CompleteJob(queue_orc, job_id)
    /\ UNCHANGED <<queueFrame, engine>>

Fail(job_id) ==
    /\ queue_orc' = FailJob(queue_orc, job_id, "error")
    /\ UNCHANGED <<queueFrame, engine>>

\* the queue as a priority queue: jobs are enqueued and dequeued
NextHeap ==
    \/ \E priority \in Priorities :
          /\ Len(queue_orc.jobs) < MaxJobs
          /\ Enqueue("ok", priority, MaxAttempts)
    \/ Dequeue

SpecHeap == Init /\ [][NextHeap]_vars

\* the queue's calls made directly, for up to QueueMaxJobs jobs and MaxCalls
\* counted complete calls and fail calls
NextQueue ==
    \/ \E priority \in {HIGH, NORMAL}, max_attempts \in 1..MaxAttempts :
          /\ Len(queue_orc.jobs) < QueueMaxJobs
          /\ Enqueue("ok", priority, max_attempts)
    \/ Dequeue
    \/ \E job_id \in 1..(QueueMaxJobs + 1) :
          /\ queue_orc.stats.completed < MaxCalls
          /\ Complete(job_id)
    \/ \E job_id \in 1..(QueueMaxJobs + 1) :
          /\ queue_orc.stats.failed < MaxCalls
          /\ Fail(job_id)

SpecQueue == Init /\ [][NextQueue]_vars

\* ------------------------------------------------------------------------
\* QueueOrchestrator: enqueue, complete and fail called by several threads.
\* self._stats[k] += 1 is a load of the counter, an addition and a store, and
\* no lock is held around it
\* ------------------------------------------------------------------------
\* the counters a call increments, in the order of the code: those on which
\* the queue after the call differs from the queue before it
Touched(q, after) ==
    SelectSeq(<<"enqueued", "completed", "dead", "failed">>,
              LAMBDA k : after.stats[k] # q.stats[k])

\* the part of a call made by thread t that is not the counting: the queue
\* as the call leaves it, with the counters still to be incremented
BeginCall(t, after, call) ==
    LET todo == Touched(queue_orc, after) IN
    /\ queue_orc.threads[t].pc = "idle"
    /\ queue_orc' = [after EXCEPT
          !.stats = queue_orc.stats,
          !.threads[t] = StatThread(IF todo = <<>> THEN "idle" ELSE "load", todo, 0),
          !.calls[call] = IF todo = <<>> THEN @ ELSE @ + 1]
    /\ UNCHANGED <<queueFrame, engine>>

\* enqueue up to the counting
ThreadEnqueue(t, job_type, priority, max_attempts) ==
    BeginCall(t, EnqueueJob(queue_orc, job_type, priority, max_attempts), "enqueued")

\* complete up to the counting
ThreadComplete(t, job_id) ==
    BeginCall(t, CompleteJob(queue_orc, job_id), "completed")

\* fail up to the counting
ThreadFail(t, job_id) ==
    BeginCall(t, FailJob(queue_orc, job_id, "error"), "failed")

\* self._stats[k] += 1, the read of the counter
StatsLoad(t) ==
    LET th == queue_orc.threads[t] IN
    /\ th.pc = "load"
    /\ queue_orc' = [queue_orc EXCEPT
          !.threads[t] = StatThread("store", th.todo, queue_orc.stats[Head(th.todo)])]
    /\ UNCHANGED <<queueFrame, engine>>

\* self._stats[k] += 1, the addition and the store; the call goes on to its
\* next counter or returns
StatsStore(t) ==
    LET th == queue_orc.threads[t]
        rest == Tail(th.todo)
    IN /\ th.pc = "store"
       /\ queue_orc' = [queue_orc EXCEPT
             !.stats[Head(th.todo)] = th.loaded + 1,
             !.threads[t] = StatThread(IF rest = <<>> THEN "idle" ELSE "load", rest, 0)]
       /\ UNCHANGED <<queueFrame, engine>>

\* up to QueueMaxJobs jobs, MaxCalls complete calls and MaxCalls fail calls,
\* made by the threads in any interleaving; the processing loop dequeues
NextStats ==
    \/ \E t \in QueueThreads, max_attempts \in 1..2 :
          /\ Len(queue_orc.jobs) < QueueMaxJobs
          /\ ThreadEnqueue(t, "ok", NORMAL, max_attempts)
    \/ Dequeue
    \/ \E t \in QueueThreads, job_id \in 1..(QueueMaxJobs + 1) :
          /\ queue_orc.calls.completed < MaxCalls
          /\ ThreadComplete(t, job_id)
    \/ \E t \in QueueThreads, job_id \in 1..(QueueMaxJobs + 1) :
          /\ queue_orc.calls.failed < MaxCalls
          /\ ThreadFail(t, job_id)
    \/ \E t \in QueueThreads : StatsLoad(t)
    \/ \E t \in QueueThreads : StatsStore(t)

SpecStats == Init /\ [][NextStats]_vars

\* _do_start
EngineStart ==
    /\ ~engine.should_run
    /\ engine' = [engine EXCEPT !.should_run = TRUE]
    /\ UNCHANGED <<queueFrame, queue_orc>>

\* _processing_loop: one turn of the loop that gets a job, which is handed to
\* the pool (a turn that gets None changes nothing)
LoopDequeue ==
    /\ engine.should_run
    /\ queue_orc.heap # <<>>
    /\ queue_orc' = DequeueJob(queue_orc)
    /\ engine' = [engine EXCEPT !.submitted = @ \cup {queue_orc'.last.job_id}]
    /\ UNCHANGED queueFrame

\* an _execute_job that lets the error of a job without handler go: the job
\* leaves the pool without fail being called
ExecuteJobDropsUnhandled(job_id) ==
    /\ job_id \in engine.submitted
    /\ LET job_type == queue_orc.jobs[job_id].job_type IN
       IF job_type \notin Handlers
       THEN /\ queue_orc' = queue_orc
            /\ engine' = [engine EXCEPT !.submitted = @ \ {job_id}]
       ELSE /\ queue_orc' = IF HandlerRaises(job_type)
                            THEN FailJob(queue_orc, job_id, "error")
                            ELSE CompleteJob(queue_orc, job_id)
            /\ engine' = [engine EXCEPT !.submitted = @ \ {job_id},
                                        !.invocations[job_id] = @ + 1]
    /\ UNCHANGED queueFrame

\* _execute_job on a pool thread: no handler or a raising handler ends in
\* fail(job_id, str(e)), a returning handler in complete(job_id, result)
ExecuteJob(job_id) ==
    /\ job_id \in engine.submitted
    /\ LET job_type == queue_orc.jobs[job_id].job_type IN
       IF job_type \notin Handlers
       THEN /\ queue_orc' = FailJob(queue_orc, job_id, "No handler for job type")
            /\ engine' = [engine EXCEPT !.submitted = @ \ {job_id}]
       ELSE /\ queue_orc' = IF HandlerRaises(job_type)
                            THEN FailJob(queue_orc, job_id, "error")
                            ELSE CompleteJob(queue_orc, job_id)
            /\ engine' = [engine EXCEPT !.submitted = @ \ {job_id},
                                        !.invocations[job_id] = @ + 1]
    /\ UNCHANGED queueFrame

\* the engine working off the queue
NextEngine ==
    \/ \E job_type \in JobTypes, priority \in {HIGH, NORMAL}, max_attempts \in 1..MaxAttempts :
          /\ Len(queue_orc.jobs) < QueueMaxJobs
          /\ Enqueue(job_type, priority, max_attempts)
    \/ EngineStart
    \/ LoopDequeue
    \/ \E job_id \in 1..QueueMaxJobs : ExecuteJob(job_id)

SpecEngine == Init /\ [][NextEngine]_vars

\* _do_stop: the loop is told to end and joined, then
\* executor.shutdown(wait=True, cancel_futures=True) waits for the jobs the
\* pool threads are running and cancels the futures no pool thread has taken
\* yet: their _execute_job is never called
EngineStop ==
    /\ engine.should_run
    /\ engine' = [engine EXCEPT !.should_run = FALSE, !.submitted = {}]
    /\ UNCHANGED <<queueFrame, queue_orc>>

\* the engine working off the queue, stopped and started again
NextPool ==
    \/ \E job_type \in JobTypes, max_attempts \in 1..2 :
          /\ Len(queue_orc.jobs) < QueueMaxJobs
          /\ Enqueue(job_type, NORMAL, max_attempts)
    \/ EngineStart
    \/ LoopDequeue
    \/ \E job_id \in 1..QueueMaxJobs : ExecuteJob(job_id)
    \/ EngineStop

SpecPool == Init /\ [][NextPool]_vars

\* a pool thread runs every job that stays submitted
FairPool == \A job_id \in 1..QueueMaxJobs : WF_vars(ExecuteJob(job_id))

SpecPoolFair == Init /\ [][NextPool]_vars /\ FairPool

TypeOK ==
    /\ \A o \in DOMAIN orders : orders[o].status \in {"pending", "completed"}
    /\ \A i \in DOMAIN items : items[i].status \in ItemStatuses


\* ------------------------------------------------------------------------
\* Properties of the order / job lifecycle (Spec)
\* ------------------------------------------------------------------------
TerminalItems(o) == \A i \in ItemsOfOrder(items, o) : items[i].status \in Terminal

\* the step is a report(job_id = j, done) call
ReportDoneStep(j) == ret' # ret /\ ret'.op = "report_done" /\ ret'.arg = j

NoDuplicateRows(hist) == \A row \in BagToSet(hist) : CopiesIn(row, hist) = 1

\* C1: Iron Rule #1. posting_history never holds two rows for one (client,
\* media, platform), and a report(done) for a triple that already has its row
\* adds no row: the call is rejected (returns False) or the item is skipped.
C1_IronRule1 ==
    [][/\ NoDuplicateRows(posting_history')
       /\ \A j \in DOMAIN items :
            (ReportDoneStep(j) /\ BagIn(TripleOf(orders, items, j), posting_history))
            => /\ posting_history' = posting_history
               /\ (ret'.res = "false" \/ items'[j].status = "skipped")]_vars

\* a report(done) was rejected for an item whose triple has its one row
C1_Witness ==
    /\ ret.op = "report_done" /\ ret.res = "false"
    /\ ret.arg \in DOMAIN items
    /\ CopiesIn(TripleOf(orders, items, ret.arg), posting_history) = 1

\* C2: report(job_id, done) for a processing item whose triple already has a
\* posting_history row ends with the item skipped, no second row and no error
\* surfaced to the caller.
C2_DuplicateReportSkipped ==
    [][\A j \in DOMAIN items :
          (/\ ReportDoneStep(j)
           /\ items[j].status = "processing"
           /\ BagIn(TripleOf(orders, items, j), posting_history))
          => /\ items'[j].status = "skipped"
             /\ posting_history' = posting_history
             /\ ApiReportResponse(ret'.res) = "ok"]_vars

AllowedTransitions ==
    {<<"new", "processing">>, <<"processing", "done">>,
     <<"processing", "failed">>, <<"processing", "skipped">>}

\* C3: the OrderItem state machine is closed. Every status is one of new,
\* processing, done, failed, skipped and every change of an item's status is
\* new->processing or processing->{done, failed, skipped}.
C3_StateMachineClosed ==
    [][\A i \in DOMAIN items :
          /\ items'[i].status \in ItemStatuses
          /\ items'[i].status # items[i].status
             => <<items[i].status, items'[i].status>> \in AllowedTransitions]_vars

\* C4: Iron Rule #2. No two items of one order have the same media_id,
\* whether the order was built by OrderBuilder.create_order or by
\* OrderVM.create_order (a list with a repeated id creates no order).
C4_IronRule2 ==
    \A i, j \in DOMAIN items :
        (i # j /\ items[i].order_id = items[j].order_id)
        => items[i].media_id # items[j].media_id

\* OrderVM.create_order has just created an order with two items
C4_Witness ==
    /\ ret.op = "vm_create_order" /\ ret.res = "order"
    /\ Cardinality(ItemsOfOrder(items, ret.arg)) = 2

\* the step is the commit of OrderBuilder.create_order
BuilderCommitStep == builder.pc = "selected" /\ Len(orders') = Len(orders) + 1

\* C5: eligibility. Every item OrderBuilder.create_order creates has no
\* posting_history row for its (client, media, platform) when it is
\* committed, also when report(done) calls interleave with the builder.
C5_EligibleAtCreation ==
    [][BuilderCommitStep
       => \A i \in (DOMAIN items') \ (DOMAIN items) :
             ~BagIn(TripleOf(orders', items', i), posting_history')]_vars

\* C6: an order is completed if and only if it has at least one item and all
\* its items are terminal (done, failed or skipped).
C6_CompletedIffAllTerminal ==
    \A o \in DOMAIN orders :
        orders[o].status = "completed"
        <=> (ItemsOfOrder(items, o) # {} /\ TerminalItems(o))

\* C7: a posting_history row for (client, media, platform) exists if and only
\* if some item with that media, in an order of that client and platform, has
\* status done.
C7_HistoryIffDone ==
    \A c \in Clients, m \in Media, p \in Platforms :
        BagIn(HistoryRow(c, m, p), posting_history)
        <=> \E i \in DOMAIN items :
               items[i].status = "done" /\ TripleOf(orders, items, i) = HistoryRow(c, m, p)

\* ------------------------------------------------------------------------
\* Properties of process_envelope (SpecEnvelope)
\* ------------------------------------------------------------------------

RaisingStep == Dispatching /\ env'.cur # NoEvent /\ LogRaises(env'.cur) /\ env' # env

C10_BogusReportIsError ==
    [][(Dispatching /\ env' # env /\ env'.cur.type = "report_job"
        /\ env'.cur.job_id \notin DOMAIN items)
       => env'.responses[env.pos].type = "error"]_vars

\* ------------------------------------------------------------------------
\* Properties of confirm (SpecConfirm)
\* ------------------------------------------------------------------------

\* the step is a call of confirm for job j, through either implementation
ConfirmStep(j) == ConfirmJob(j) \/ ServiceConfirmJob(j)

\* C21: confirm(job_id) of an item with no posting_history row for its
\* (client, media, platform): a new item becomes processing and the answer is
\* OK; a processing item is answered OK and nothing changes; a done, failed
\* or skipped item is refused and nothing changes; an unknown job_id is
\* refused and nothing changes.
C21_ConfirmByStatus ==
    [][\A j \in JobIds :
        ConfirmStep(j)
        => IF j \notin DOMAIN items
           THEN ret'.res # "can_post" /\ UNCHANGED storeVars
           ELSE ~BagIn(TripleOf(orders, items, j), posting_history)
                => CASE items[j].status = "new" ->
                          /\ ret'.res = "can_post"
                          /\ items' = [items EXCEPT ![j].status = "processing"]
                          /\ UNCHANGED <<orders, posting_history>>
                     [] items[j].status = "processing" ->
                          ret'.res = "can_post" /\ UNCHANGED storeVars
                     [] OTHER ->
                          ret'.res # "can_post" /\ UNCHANGED storeVars]_vars

\* C22: confirm(job_id) of a new or processing item whose (client, media,
\* platform) has a posting_history row sets the item to skipped and answers
\* with the Iron Rule refusal, never OK; a row of another client for the same
\* media and platform is no reason to refuse.
C22_ConfirmRechecksHistory ==
    [][\A j \in DOMAIN items :
        (ConfirmStep(j) /\ items[j].status \in {"new", "processing"})
        => IF BagIn(TripleOf(orders, items, j), posting_history)
           THEN /\ ret'.res = "already_posted"
                /\ items' = [items EXCEPT ![j].status = "skipped"]
           ELSE ret'.res \notin {"already_posted", "already_posted_platform"}]_vars

\* ------------------------------------------------------------------------
\* Properties of OrderBuilder.create_order (SpecBuilder)
\* ------------------------------------------------------------------------

\* the step is a return of OrderBuilder.create_order
BuilderReturnStep ==
    \/ BuilderInsert
    \/ BuilderInsertFail
    \/ \E code \in ClientCodes, q \in 1..MaxQuantity, pc \in ProdCodes :
          BuilderSelect(code, q, pc) /\ builder' = builder

\* C23: OrderBuilder.create_order is all-or-nothing. A call that returns no
\* order (unknown client, nothing eligible, a failure at any point of the
\* inserts) leaves orders and order_items as they were; a call that returns an
\* order has added exactly that order, pending, and exactly one new item of
\* that order per returned payload, with the payload's id and media.
C23_CreateOrderAllOrNothing ==
    [][BuilderReturnStep
       => IF ret'.res = "none"
          THEN UNCHANGED <<orders, items>>
          ELSE LET o == ret'.arg
                   payloads == Payloads(Len(items) + 1, builder.clips)
               IN /\ orders' = Append(orders, orders'[o])
                  /\ orders'[o].status = "pending"
                  /\ SubSeq(items', 1, Len(items)) = items
                  /\ ItemsOfOrder(items', o) = {payloads[k].job_id : k \in DOMAIN payloads}
                  /\ Len(items') = Len(items) + Len(payloads)
                  /\ \A k \in DOMAIN payloads :
                        items'[payloads[k].job_id]
                           = [order_id |-> o, media_id |-> payloads[k].media_id,
                              status |-> "new"]]_vars

\* create_order has just returned an order with two payloads
C23_Witness ==
    /\ ret = Ret("builder_create_order", 1, "order")
    /\ orders[1].status = "pending"
    /\ Cardinality(ItemsOfOrder(items, 1)) = 2

\* ------------------------------------------------------------------------
\* Properties of the webhook (SpecWebhook)
\* ------------------------------------------------------------------------

\* C11: a webhook request holding an event of unknown type is not failed as a
\* whole: it is answered, with one response per event, and the response of
\* the unknown event is an error with code UNKNOWN_EVENT on its reply token.
C11_UnknownEventAnswered ==
    webhook.bad # 0
    => /\ webhook.status # "http_500"
       /\ webhook.status = "http_200"
          => /\ Len(env.responses) = Len(webhook.tokens)
             /\ env.responses[webhook.bad]
                   = CreateError(webhook.tokens[webhook.bad], "UNKNOWN_EVENT")

\* the step dispatches a request_job event
RequestJobStep == Dispatching /\ env' # env /\ env'.cur.type = "request_job"

\* C12: just-in-time assignment. A request_job of a registered client with a
\* non-empty eligibility set is answered with a job_assignment for an
\* eligible media, whether or not an order exists; the text message is the
\* answer only for an unknown client or an empty eligibility set.
C12_JustInTimeAssignment ==
    [][RequestJobStep
       => LET c == FindClient(env.client_code)
              E == IF c = NoClient THEN {}
                   ELSE Eligible(posting_history, c, ClientPlatform(c), NoProd)
              r == env'.responses[env.pos]
          IN IF E # {}
             THEN /\ r.type = "job_assignment"
                  /\ r.job_id \in DOMAIN items'
                  /\ items'[r.job_id].media_id \in E
             ELSE r.type = "text"]_vars

\* ------------------------------------------------------------------------
\* Properties of the event bus (SpecBus, SpecFanout)
\* ------------------------------------------------------------------------

\* '#' occurs in the pattern only as its last segment
FinalHashOnly(pattern) == \A i \in 1..(Len(pattern) - 1) : pattern[i] # "#"

\* segment-wise matching as the contract words it: a literal matches itself,
\* '*' one segment, a final '#' zero or more remaining segments
SegmentWise(pattern, topic) ==
    LET hashed == pattern[Len(pattern)] = "#"
        q == IF hashed THEN SubSeq(pattern, 1, Len(pattern) - 1) ELSE pattern
    IN /\ IF hashed THEN Len(topic) >= Len(q) ELSE Len(topic) = Len(q)
       /\ \A i \in DOMAIN q : q[i] = "*" \/ q[i] = topic[i]

\* how often publish invoked the subscription
TimesInvoked(sub) == Cardinality({k \in DOMAIN bus.calls : bus.calls[k] = sub})

\* the last call was a publish that passed the topic check
Published == bus.last.op = "publish" /\ ~HasWildcard(bus.last.topic)

\* C13: publish(topic) invokes the callback of every subscription whose
\* pattern matches the topic exactly once and no callback of a non-matching
\* pattern, matching being segment-wise (literal, '*' for one segment, final
\* '#' for zero or more); the examples of the contract hold.
C13_PublishMatches ==
    /\ Published
       => /\ \A k \in DOMAIN bus.calls :
                bus.calls[k] \in Range(Subscriptions(bus.subscribers))
          /\ \A sub \in Range(Subscriptions(bus.subscribers)) :
                FinalHashOnly(sub.pattern)
                => TimesInvoked(sub)
                     = IF SegmentWise(sub.pattern, bus.last.topic) THEN 1 ELSE 0
    /\ TopicMatches(<<"a", "*", "c">>, <<"a", "b", "c">>)
    /\ ~TopicMatches(<<"a", "*", "c">>, <<"a", "c">>)
    /\ ~TopicMatches(<<"a", "*", "c">>, <<"a", "b", "d", "c">>)
    /\ TopicMatches(<<"a", "#">>, <<"a">>)
    /\ TopicMatches(<<"a", "#">>, <<"a", "b">>)
    /\ TopicMatches(<<"a", "#">>, <<"a", "b", "c", "d">>)
    /\ ~TopicMatches(<<"order", "*">>, <<"order", "item", "added">>)

\* publish('a/b') with subscribers of 'a/*' and of 'a': only the first is invoked
C13_Witness ==
    /\ Published
    /\ bus.last.topic = <<"a", "b">>
    /\ Len(Subscriptions(bus.subscribers)) = 2
    /\ \E i \in DOMAIN bus.subscribers : bus.subscribers[i].pattern = <<"a">>
    /\ bus.calls = <<[pattern |-> <<"a", "*">>, callback |-> "h1"]>>

\* C14: a callback that raises during a synchronous publish never makes
\* publish raise, and every other matching subscriber, before and after the
\* failing one, still receives the message exactly once.
C14_SubscriberErrorIsolated ==
    Published
    => /\ bus.raised = "none"
       /\ \A sub \in Range(Subscriptions(bus.subscribers)) :
             TopicMatches(sub.pattern, bus.last.topic) => TimesInvoked(sub) = 1

\* three subscribers were invoked, the second one raised
C14_Witness ==
    /\ Published
    /\ Len(bus.calls) = 3
    /\ ~CallbackRaises(bus.calls[1].callback)
    /\ CallbackRaises(bus.calls[2].callback)
    /\ ~CallbackRaises(bus.calls[3].callback)

\* the subscription (pattern, callback)
Sub(pattern, callback) == [pattern |-> pattern, callback |-> callback]

\* how often the subscription occurs in the sequence of subscriptions
TimesIn(subs, sub) == Cardinality({k \in DOMAIN subs : subs[k] = sub})

\* C24: subscribe is idempotent per (pattern, callback). After a
\* subscribe(p, cb) the table holds the pair exactly once, however often it
\* was subscribed before, a repeated subscribe leaves the table as it is, and
\* a publish to a topic matching p invokes cb exactly once for p.
C24_SubscribeIdempotent ==
    [][/\ bus'.last.op = "subscribe"
          => \A p \in FanoutPatterns, cb \in Callbacks :
                Subscribe(p, cb)
                => /\ TimesIn(Subscriptions(bus'.subscribers), Sub(p, cb)) = 1
                   /\ TimesIn(Subscriptions(bus.subscribers), Sub(p, cb)) = 1
                      => bus'.subscribers = bus.subscribers
       /\ (Publish(bus'.last.topic) /\ ~HasWildcard(bus'.last.topic))
          => \A sub \in Range(Subscriptions(bus.subscribers)) :
                TopicMatches(sub.pattern, bus'.last.topic)
                => TimesIn(bus'.calls, sub) = 1]_vars

\* a subscribe that found its pair in the table and appended nothing, while
\* another callback is subscribed to the same pattern
C24_Witness ==
    /\ bus.last = Call("subscribe", <<>>)
    /\ \E k \in DOMAIN bus.subscribers : Len(bus.subscribers[k].callbacks) = 2

\* C25: unsubscribe(p, cb) removes the subscription (p, cb) and no other; when
\* (p, cb) is not subscribed it changes nothing and raises nothing; once
\* unsubscribed, cb is not invoked for p by a publish to a matching topic.
C25_UnsubscribeExact ==
    [][/\ bus'.last.op = "unsubscribe"
          => \A p \in FanoutPatterns, cb \in Callbacks :
                Unsubscribe(p, cb)
                => /\ bus'.raised = "none"
                   /\ Subscriptions(bus'.subscribers)
                         = SelectSeq(Subscriptions(bus.subscribers),
                                     LAMBDA sub : sub # Sub(p, cb))
                   /\ Sub(p, cb) \notin Range(Subscriptions(bus.subscribers))
                      => bus'.subscribers = bus.subscribers
       /\ Publish(bus'.last.topic)
          => \A k \in DOMAIN bus'.calls :
                bus'.calls[k] \in Range(Subscriptions(bus.subscribers))]_vars

\* an unsubscribe has removed a callback from a pattern that keeps another
\* one, while the other pattern has its subscriber
C25_Witness ==
    /\ bus.last.op = "unsubscribe"
    /\ bus.last.topic # <<>>
    /\ Len(bus.subscribers) = 2
    /\ \A k \in DOMAIN bus.subscribers : Len(bus.subscribers[k].callbacks) = 1

\* the step is a publish or publish_async call with this topic
PublishCall(topic) == Publish(topic) \/ PublishAsync(topic)

\* C26: publish and publish_async with a topic that holds '*' or '#' raise
\* the validation error and change nothing: no callback is invoked, nothing
\* is put into the queue, the history and the subscriber table stay.
C26_WildcardTopicRejected ==
    [][(PublishCall(bus'.last.topic) /\ Range(bus'.last.topic) \cap Wildcards # {})
       => /\ bus'.raised = "ValueError"
          /\ bus'.calls = <<>>
          /\ bus'.message_queue = bus.message_queue
          /\ bus'.accepted = bus.accepted
          /\ bus'.history = bus.history
          /\ bus'.subscribers = bus.subscribers]_vars

\* publish_async('*') was refused while a subscriber of every topic exists,
\* a message is queued and another one is in the history
C26_Witness ==
    /\ bus.last = Call("publish_async", <<"*">>)
    /\ bus.raised = "ValueError"
    /\ bus.subscribers # <<>>
    /\ Len(bus.message_queue) = 1
    /\ Len(bus.history) = 1

\* no thread is inside publish
NoPublisher == \A t \in Publishers : bus.publishers[t].pc = "idle"

\* C27: once the deliveries of any number of publishers have ended, the
\* history holds at most the limit of messages and they are the most recently
\* delivered ones in delivery order, whether the deliveries are ordered by
\* their entry into the history or by their fan-out.
C27_HistoryKeepsLatest ==
    NoPublisher
    => /\ Len(bus.history) <= BusHistoryLimit
       /\ \/ bus.history = KeepLast(bus.appended, BusHistoryLimit)
          \/ bus.history = KeepLast(bus.fanned_out, BusHistoryLimit)

\* C28: the error ids handle_error assigns are pairwise distinct and strictly
\* increasing in the order of their assignment, whatever the interleaving of
\* the calling threads.
C28_ErrorIdsDistinct ==
    \A i, j \in DOMAIN error_orc.ids :
        i < j => error_orc.ids[i] < error_orc.ids[j]

\* C30: subscriber-table mutations and fan-out exclude each other. The table
\* does not change while a thread is in the fan-out, so a subscribe or
\* unsubscribe of another thread takes effect before the fan-out or after it,
\* and the callbacks called for a message are the matching subscriptions of
\* the one table the fan-out found and left.
C30_FanoutExcludesMutation ==
    [][/\ bus'.subscribers # bus.subscribers
          => \A t \in Publishers : bus.fanouts[t].pc = "idle"
       /\ \A t \in Publishers :
             (bus.fanouts[t].pc = "walk" /\ bus'.fanouts[t].pc = "idle")
             => /\ bus.subscribers = bus.fanouts[t].entered
                /\ bus'.calls = Matching(bus.fanouts[t].entered, bus.fanouts[t].msg)]_vars

\* a thread holds the lock in the middle of a fan-out: it has called the
\* first of three matching callbacks, the last of which was subscribed just
\* before the fan-out began
C30_Witness ==
    /\ bus.last = Call("subscribe", <<"#">>)
    /\ \E t \in Publishers :
          /\ bus.sub_lock = t
          /\ bus.fanouts[t].pc = "walk"
          /\ bus.fanouts[t].pos = 2
          /\ Len(bus.fanouts[t].invoked) = 1
          /\ bus.fanouts[t].entered = bus.subscribers
    /\ Len(Matching(bus.subscribers, Message(<<"a", "b">>, 0))) = 3

\* ------------------------------------------------------------------------
\* Properties of the client registry (SpecClients)
\* ------------------------------------------------------------------------

\* how often client/connected was published for the client_code
TimesConnected(code) ==
    Cardinality({k \in DOMAIN registry.published :
                    registry.published[k] = ClientEvent(<<"client", "connected">>, code)})

C15_AsyncOrderPreserved ==
    \A i, j \in DOMAIN bus.delivered :
        (i < j /\ bus.delivered[i].topic = bus.delivered[j].topic)
        => bus.delivered[i].n < bus.delivered[j].n

\* the step is a stop_async_worker call made when there is no worker thread
\* (never started, or stopped before)
StopAgainStep ==
    /\ bus'.last = Call("stop_async_worker", <<>>)
    /\ bus'.tick # bus.tick
    /\ bus.worker_thread = NoThread

\* C16: after stop_async_worker the worker thread it was issued for
\* eventually terminates, and a stop_async_worker call made when there is no
\* worker (a second stop, or a stop without a start) does not block and
\* changes nothing of the bus.
C16_StopTerminates ==
    /\ \A w \in Workers :
          (w \in bus.stopped) ~> (bus.workers[w].pc = "exited")
    /\ [][StopAgainStep
          => /\ bus'.joining = NoThread
             /\ bus' = [bus EXCEPT !.last = bus'.last, !.tick = bus'.tick,
                                   !.calls = <<>>, !.raised = "none"]]_vars

\* message n waits in the async queue
Waiting(n) == \E i \in DOMAIN bus.message_queue : bus.message_queue[i].n = n

\* a worker thread holds message n and has not finished delivering it
InDelivery(n) ==
    \E w \in Workers : bus.workers[w].pc = "deliver" /\ bus.workers[w].msg.n = n

\* C35: a message that publish_async accepts after the worker has been
\* stopped and started again is eventually taken from the queue and
\* delivered, unless the bus is stopped again before: the restarted worker is
\* not ended by a sentinel the earlier stop left in the queue.
C35_RestartDelivers ==
    \A n \in 1..MaxAsync :
        (n \in bus.restarted)
        ~> (~bus.running \/ (~Waiting(n) /\ ~InDelivery(n)))

\* the threads that run _async_worker and have not ended
LiveWorkers == {w \in Workers : bus.workers[w].pc \in {"loop", "get", "deliver"}}

\* C31: at every moment at most one thread is running _async_worker, for
\* every interleaving of start_async_worker and stop_async_worker calls, also
\* for a start after a stop whose join timed out.
C31_SingleAsyncWorker == Cardinality(LiveWorkers) <= 1

\* ------------------------------------------------------------------------
\* Properties of the job queue (SpecHeap, SpecQueue, SpecEngine)
\* ------------------------------------------------------------------------
Occurrences(s, x) == Cardinality({i \in DOMAIN s : s[i] = x})

PrioritiesOf(ids) == [i \in DOMAIN ids |-> queue_orc.jobs[ids[i]].priority]

\* the step is a dequeue that returns a job
DequeueStep ==
    /\ queue_orc'.last.op = "dequeue"
    /\ queue_orc'.last.job_id # 0
    /\ Len(queue_orc'.heap) = Len(queue_orc.heap) - 1

\* C17: dequeue returns a job of the queue whose priority value is the
\* smallest of all queued jobs, and takes just that job out of the queue.
C17_DequeueSmallestPriority ==
    [][DequeueStep
       => LET j == queue_orc'.last.job_id IN
          /\ j \in Range(queue_orc.heap)
          /\ \A k \in Range(queue_orc.heap) :
                queue_orc.jobs[j].priority <= queue_orc.jobs[k].priority
          /\ \A k \in Range(queue_orc.heap) :
                Occurrences(queue_orc'.heap, k)
                  = Occurrences(queue_orc.heap, k) - (IF k = j THEN 1 ELSE 0)]_vars

\* jobs enqueued with priorities [5, 1, 5, 10, 1] were dequeued as [1, 1, 5, 5, 10]
C17_Witness ==
    /\ Len(queue_orc.jobs) = 5
    /\ PrioritiesOf(<<1, 2, 3, 4, 5>>) = <<NORMAL, HIGH, NORMAL, LOW, HIGH>>
    /\ PrioritiesOf(queue_orc.dequeued) = <<HIGH, HIGH, NORMAL, NORMAL, LOW>>

\* C18: FIFO tie-break. dequeue never returns a job while a job of the same
\* priority that was enqueued earlier is still in the queue.
C18_FifoAmongEqualPriority ==
    [][DequeueStep
       => LET j == queue_orc'.last.job_id IN
          \A k \in Range(queue_orc.heap) :
              queue_orc.jobs[k].priority = queue_orc.jobs[j].priority => j <= k]_vars

\* the step is a fail(job_id = j) call
FailCall(j) ==
    /\ queue_orc'.last.op = "fail"
    /\ queue_orc'.last.job_id = j
    /\ queue_orc' # queue_orc

\* C19: fail(job_id) on a tracked job with attempt_count < max_attempts puts
\* the job back into the queue with status pending and leaves the dead-letter
\* bucket alone; otherwise the job becomes dead, is appended to the
\* dead-letter bucket, is not put back and queue/job/dead is published; fail
\* on an unknown job_id changes nothing.
C19_FailRetriesOrBuries ==
    [][\A j \in 1..(QueueMaxJobs + 1) :
          FailCall(j)
          => IF j \notin DOMAIN queue_orc.jobs
             THEN queue_orc' = [queue_orc EXCEPT !.last = queue_orc'.last]
             ELSE IF queue_orc.jobs[j].attempt_count < queue_orc.jobs[j].max_attempts
             THEN /\ queue_orc'.jobs[j].status = "pending"
                  /\ Occurrences(queue_orc'.heap, j) = Occurrences(queue_orc.heap, j) + 1
                  /\ Len(queue_orc'.heap) = Len(queue_orc.heap) + 1
                  /\ queue_orc'.dead_letter = queue_orc.dead_letter
                  /\ "queue/job/dead" \notin Range(queue_orc'.last.published)
             ELSE /\ queue_orc'.jobs[j].status = "dead"
                  /\ queue_orc'.dead_letter = Append(queue_orc.dead_letter, j)
                  /\ queue_orc'.heap = queue_orc.heap
                  /\ "queue/job/dead" \in Range(queue_orc'.last.published)]_vars

\* a job was retried by its first fail and buried by its second
C19_Witness ==
    /\ queue_orc.last.op = "fail"
    /\ queue_orc.last.published = <<"queue/job/dead">>
    /\ queue_orc.stats.failed = 2
    /\ LET j == queue_orc.last.job_id IN
       /\ queue_orc.jobs[j].attempt_count = 2
       /\ queue_orc.jobs[j].max_attempts = 2
       /\ queue_orc.dead_letter = <<j>>
       /\ j \notin Range(queue_orc.heap)

\* C20: a job whose handler always fails is handed to the handler at most
\* max_attempts times; once it is in the dead-letter bucket it is there
\* exactly once, it has been handed to the handler exactly max_attempts
\* times, and it is neither queued nor submitted to the pool any more.
C20_DeadAfterMaxAttempts ==
    \A j \in DOMAIN queue_orc.jobs :
        HandlerRaises(queue_orc.jobs[j].job_type)
        => /\ engine.invocations[j] <= queue_orc.jobs[j].max_attempts
           /\ Occurrences(queue_orc.dead_letter, j) <= 1
           /\ j \in Range(queue_orc.dead_letter)
              => /\ engine.invocations[j] = queue_orc.jobs[j].max_attempts
                 /\ queue_orc.jobs[j].status = "dead"
                 /\ j \notin Range(queue_orc.heap)
                 /\ j \notin engine.submitted

\* a job with max_attempts = 3 was handed to its failing handler three times
\* and is in the dead-letter bucket once
C20_Witness ==
    \E j \in DOMAIN queue_orc.jobs :
        /\ HandlerRaises(queue_orc.jobs[j].job_type)
        /\ queue_orc.jobs[j].max_attempts = 3
        /\ engine.invocations[j] = 3
        /\ Occurrences(queue_orc.dead_letter, j) = 1
        /\ queue_orc.heap = <<>>

\* the error text _execute_job hands to fail for a job of this type
ErrorText(job_type) ==
    IF job_type \notin Handlers THEN "No handler for job type" ELSE "error"

\* C32: when a pool thread finishes a job whose type has no registered
\* handler or whose handler raises, the job carries the error text, it is
\* pending and queued once more if attempts remain and otherwise dead and in
\* the dead-letter bucket, the failure is counted, and the processing loop
\* stays as it was: it takes the later jobs.
C32_HandlerErrorIsJobFailure ==
    [][\A j \in DOMAIN queue_orc.jobs :
          LET job == queue_orc.jobs[j] IN
          (/\ j \in engine.submitted
           /\ j \notin engine'.submitted
           /\ job.job_type \notin Handlers \/ HandlerRaises(job.job_type))
          => /\ queue_orc'.jobs[j].error_message = ErrorText(job.job_type)
             /\ queue_orc'.last = QueueCall("fail", j, queue_orc'.last.published)
             /\ queue_orc'.stats.failed = queue_orc.stats.failed + 1
             /\ IF job.attempt_count < job.max_attempts
                THEN /\ queue_orc'.jobs[j].status = "pending"
                     /\ queue_orc'.heap = HeapPush(queue_orc.jobs, queue_orc.heap, j)
                     /\ queue_orc'.dead_letter = queue_orc.dead_letter
                ELSE /\ queue_orc'.jobs[j].status = "dead"
                     /\ queue_orc'.dead_letter = Append(queue_orc.dead_letter, j)
                     /\ queue_orc'.heap = queue_orc.heap
             /\ engine'.should_run = engine.should_run
             /\ engine'.submitted = engine.submitted \ {j}]_vars

\* the first job dequeued had no handler and is dead with that error text;
\* the job dequeued after it was handed to its handler and completed
C32_Witness ==
    /\ Len(queue_orc.dequeued) = 2
    /\ LET first == queue_orc.dequeued[1]
           later == queue_orc.dequeued[2]
       IN /\ queue_orc.jobs[first].job_type = "none"
          /\ queue_orc.jobs[first].status = "dead"
          /\ queue_orc.jobs[first].error_message = "No handler for job type"
          /\ queue_orc.dead_letter = <<first>>
          /\ queue_orc.jobs[later].status = "completed"
          /\ engine.invocations[later] = 1
          /\ engine.submitted = {}

\* C34: the clips create_order selects for a given prod_code, of which it
\* then makes the order's items, are media of the product with that sku
\* only, and for a prod_code that names no product it selects none and
\* builds no order.
C34_OrderWithinProduct ==
    [][\A code \in ClientCodes, quantity \in 1..MaxQuantity, prod_code \in ProdCodes \ {NoProd} :
          (BuilderSelect(code, quantity, prod_code) /\ builder'.pc = "selected")
          => /\ prod_code \in Skus
             /\ \A k \in DOMAIN builder'.clips :
                   MediaProduct(builder'.clips[k]) = prod_code]_vars

\* C36: a publish call returns, whatever its callbacks do: a callback that
\* publishes, subscribes or unsubscribes on the same bus returns and the
\* fan-out it was called from goes on to its end.
C36_ReentrantPublishReturns ==
    \A t \in Publishers :
        (bus.fanouts[t].pc # "idle") ~> (bus.fanouts[t].pc = "idle")

\* C37: a job that dequeue has handed out (status processing) eventually
\* becomes completed, pending again or dead, also when the engine is stopped
\* after the dequeue and before a pool thread has started the job.
C37_DequeuedJobSettles ==
    \A j \in 1..QueueMaxJobs :
        (j \in DOMAIN queue_orc.jobs /\ queue_orc.jobs[j].status = "processing")
        ~> (j \in DOMAIN queue_orc.jobs
            /\ queue_orc.jobs[j].status \in {"completed", "pending", "dead"})

\* the step is a report_job call
ReportStep == ret' # ret /\ ret'.op \in {"report_done", "report_failed"}

\* C38: report_job publishes order/job_completed, order/job_failed and
\* order/completed only for a status change that is committed: a call that
\* publishes one of them returns True and leaves the item, and for
\* order/completed the order, in the announced status; a call that is rolled
\* back publishes nothing.
C38_EventsOnlyIfCommitted ==
    [][(ReportStep /\ ret'.published # <<>>)
       => /\ ret'.res = "true"
          /\ ret'.arg \in DOMAIN items'
          /\ "order/job_completed" \in Range(ret'.published)
                => items'[ret'.arg].status = "done"
          /\ "order/job_failed" \in Range(ret'.published)
                => items'[ret'.arg].status = "failed"
          /\ "order/completed" \in Range(ret'.published)
                => orders'[items'[ret'.arg].order_id].status = "completed"]_vars

\* C39: no OrderItem is returned as a job by two get_next_job calls, and
\* whenever no call is running an item's attempt_count is the number of
\* times it was assigned.
C39_AssignedOnce ==
    \A i \in DOMAIN items :
        /\ assign.returned[i] <= 1
        /\ (\A t \in AssignThreads : assign.threads[t].pc = "idle")
           => assign.attempt_count[i] = assign.returned[i]

\* the client whose order holds job j: NoClient when j names no OrderItem
JobOwner(j) == IF j \in DOMAIN items THEN orders[items[j].order_id].client_id ELSE NoClient

\* C40: a report_job event changes an item's status, inserts a
\* posting_history row or increments a counter of the sender's ClientStatus
\* only if its job_id names an OrderItem of an order of the sender.
C40_ReportOwnership ==
    [][(/\ Dispatching
        /\ env' # env
        /\ env'.cur.type = "report_job"
        /\ \/ FindClient(env.client_code) = NoClient
           \/ JobOwner(env'.cur.job_id) # FindClient(env.client_code))
       => /\ items' = items
          /\ posting_history' = posting_history
          /\ env'.counted = "none"]_vars

\* C33: whenever no thread is inside a call of the queue orchestrator, the
\* counters enqueued, completed and failed equal the numbers of enqueue calls
\* and of complete and fail calls on tracked jobs made so far, and dead equals
\* the number of jobs moved to the dead-letter bucket.
C33_CountersExact ==
    (\A t \in QueueThreads : queue_orc.threads[t].pc = "idle")
    => /\ queue_orc.stats.enqueued = queue_orc.calls.enqueued
       /\ queue_orc.stats.completed = queue_orc.calls.completed
       /\ queue_orc.stats.failed = queue_orc.calls.failed
       /\ queue_orc.stats.dead = Len(queue_orc.dead_letter)

====
